---- MODULE Spec2Model ----
(***************************************************************************)
(* A model of ezjww: the JWW decoder (parser.rs, reader.rs), the block     *)
(* reference validator (parser.rs) and the DXF conversion with its explode *)
(* engine (dxf.rs).                                                        *)
(*                                                                         *)
(* Numbers.  Coordinates, radii and scales are integers (every value used  *)
(* is exactly representable as an f64, and the sums and products formed    *)
(* from them stay exact).  Angles are kept in whole degrees; angles fed to *)
(* cos/sin are multiples of 90 degrees, where the model uses the exact     *)
(* values 0, 1, -1 (the f64 results differ from these by less than 1e-15,  *)
(* far below every tolerance the code compares against).                   *)
(***************************************************************************)
EXTENDS Integers, Sequences, FiniteSets, TLC

(***************************************************************************)
(* Bounds of the model.                                                    *)
(***************************************************************************)
MaxDefs == 2          \* block definitions (and distinct def numbers) per document
MaxTop == 2           \* top-level entities per document
MaxFrames == 5        \* cap on the recursion depth of convert_entities_exploded
MaxRecords == 2       \* records in the block definition section of a file

\* usize::MAX, the largest max_block_nesting a caller can pass (stand-in:
\* the largest integer of the checker, larger than any depth a run reaches).
UsizeMax == 2147483647

\* isize::MAX for that usize, the largest capacity a Vec can be given
IsizeMax == 1073741823

Abs(x) == IF x < 0 THEN -x ELSE x
Max2(x, y) == IF x >= y THEN x ELSE y
Min2(x, y) == IF x <= y THEN x ELSE y
Range(s) == {s[i] : i \in DOMAIN s}

RECURSIVE Flatten(_)
Flatten(ss) == IF ss = <<>> THEN <<>> ELSE Head(ss) \o Flatten(Tail(ss))

SeqsUpTo(S, n) == UNION {[1..k -> S] : k \in 0..n}

(***************************************************************************)
(* model.rs: the source entities.                                          *)
(***************************************************************************)
Line(x1, y1, x2, y2) ==
    [kind |-> "Line", start_x |-> x1, start_y |-> y1, end_x |-> x2, end_y |-> y2]

Arc(cx, cy, r, start, sweep, tilt, flat, full) ==
    [kind |-> "Arc", center_x |-> cx, center_y |-> cy, radius |-> r,
     start_angle |-> start, arc_angle |-> sweep, tilt_angle |-> tilt,
     flatness |-> flat, is_full_circle |-> full]

Point(x, y, temp) ==
    [kind |-> "Point", x |-> x, y |-> y, is_temporary |-> temp]

Text(x, y, sy, ang, s) ==
    [kind |-> "Text", start_x |-> x, start_y |-> y, size_y |-> sy,
     angle |-> ang, content |-> s]

Solid(x1, y1, x2, y2, x3, y3, x4, y4) ==
    [kind |-> "Solid", point1_x |-> x1, point1_y |-> y1, point2_x |-> x2,
     point2_y |-> y2, point3_x |-> x3, point3_y |-> y3, point4_x |-> x4,
     point4_y |-> y4]

Block(rx, ry, sx, sy, rot, n) ==
    [kind |-> "Block", ref_x |-> rx, ref_y |-> ry, scale_x |-> sx,
     scale_y |-> sy, rotation |-> rot, def_number |-> n]

Dimension(l, t) == [kind |-> "Dimension", line |-> l, text |-> t]

BlockDef(n, nm, es) == [number |-> n, name |-> nm, entities |-> es]

entity_type(e) ==
    CASE e.kind = "Line" -> "LINE"
      [] e.kind = "Arc" -> IF e.is_full_circle THEN "CIRCLE" ELSE "ARC"
      [] e.kind = "Point" -> "POINT"
      [] e.kind = "Text" -> "TEXT"
      [] e.kind = "Solid" -> "SOLID"
      [] e.kind = "Block" -> "BLOCK"
      [] e.kind = "Dimension" -> "DIMENSION"

(***************************************************************************)
(* dxf.rs: exact cos, sin and atan2 at quarter turns.                      *)
(***************************************************************************)
NormDeg(d) == ((d % 360) + 360) % 360
Cos(d) == CASE NormDeg(d) = 0 -> 1 [] NormDeg(d) = 180 -> -1 [] OTHER -> 0
Sin(d) == CASE NormDeg(d) = 90 -> 1 [] NormDeg(d) = 270 -> -1 [] OTHER -> 0

\* y.atan2(x) * 180 / PI for an axis-aligned vector
Atan2Deg(y, x) ==
    CASE y = 0 /\ x >= 0 -> 0
      [] y = 0 /\ x < 0 -> 180
      [] y > 0 -> 90
      [] OTHER -> -90

\* (x*x + y*y).sqrt() where the sum is a perfect square
Hypot(x, y) == CHOOSE n \in 0..(Abs(x) + Abs(y)) : n * n = x * x + y * y

(***************************************************************************)
(* dxf.rs: Transform2D.                                                    *)
(***************************************************************************)
identity == [a |-> 1, b |-> 0, c |-> 0, d |-> 1, tx |-> 0, ty |-> 0]

from_insert(block) ==
    LET cos == Cos(block.rotation)
        sin == Sin(block.rotation)
    IN [a |-> cos * block.scale_x, b |-> sin * block.scale_x,
        c |-> (-sin) * block.scale_y, d |-> cos * block.scale_y,
        tx |-> block.ref_x, ty |-> block.ref_y]

\* compose with the two transforms taken in the other order
compose_reversed(self, rhs) ==
    [a |-> rhs.a * self.a + rhs.c * self.b,
     b |-> rhs.b * self.a + rhs.d * self.b,
     c |-> rhs.a * self.c + rhs.c * self.d,
     d |-> rhs.b * self.c + rhs.d * self.d,
     tx |-> rhs.a * self.tx + rhs.c * self.ty + rhs.tx,
     ty |-> rhs.b * self.tx + rhs.d * self.ty + rhs.ty]

compose(self, rhs) ==
    [a |-> self.a * rhs.a + self.c * rhs.b,
     b |-> self.b * rhs.a + self.d * rhs.b,
     c |-> self.a * rhs.c + self.c * rhs.d,
     d |-> self.b * rhs.c + self.d * rhs.d,
     tx |-> self.a * rhs.tx + self.c * rhs.ty + self.tx,
     ty |-> self.b * rhs.tx + self.d * rhs.ty + self.ty]

apply_point(self, x, y) ==
    <<self.a * x + self.c * y + self.tx, self.b * x + self.d * y + self.ty>>

apply_vector(self, x, y) ==
    <<self.a * x + self.c * y, self.b * x + self.d * y>>

\* twice the average scale, (sx + sy): the halving is left to the user
average_scale_x2(self) == Hypot(self.a, self.b) + Hypot(self.c, self.d)

rotation_deg(self) == Atan2Deg(self.b, self.a)

(***************************************************************************)
(* dxf.rs: the DXF entities.  A height and a minor_ratio are fractions     *)
(* <<numerator, denominator>>.                                             *)
(***************************************************************************)
DxfLine(x1, y1, x2, y2) ==
    [type |-> "LINE", x1 |-> x1, y1 |-> y1, x2 |-> x2, y2 |-> y2]

DxfCircle(cx, cy, r) ==
    [type |-> "CIRCLE", center_x |-> cx, center_y |-> cy, radius |-> r]

DxfArc(cx, cy, r, sa, ea) ==
    [type |-> "ARC", center_x |-> cx, center_y |-> cy, radius |-> r,
     start_angle |-> sa, end_angle |-> ea]

DxfEllipse(cx, cy, mx, my, ratio, sp, ep) ==
    [type |-> "ELLIPSE", center_x |-> cx, center_y |-> cy, major_axis_x |-> mx,
     major_axis_y |-> my, minor_ratio |-> ratio, start_param |-> sp,
     end_param |-> ep]

DxfPoint(x, y) == [type |-> "POINT", x |-> x, y |-> y]

DxfText(x, y, h, rot, s) ==
    [type |-> "TEXT", x |-> x, y |-> y, height |-> h, rotation |-> rot,
     content |-> s, style |-> "STANDARD"]

DxfSolid(x1, y1, x2, y2, x3, y3, x4, y4) ==
    [type |-> "SOLID", x1 |-> x1, y1 |-> y1, x2 |-> x2, y2 |-> y2,
     x3 |-> x3, y3 |-> y3, x4 |-> x4, y4 |-> y4]

DxfInsert(nm, x, y, sx, sy, rot) ==
    [type |-> "INSERT", block_name |-> nm, x |-> x, y |-> y, scale_x |-> sx,
     scale_y |-> sy, rotation |-> rot]

DxfBlock(nm, es) == [name |-> nm, base_x |-> 0, base_y |-> 0, entities |-> es]

Some(v) == [is_some |-> TRUE, value |-> v]
None == [is_some |-> FALSE]

(***************************************************************************)
(* dxf.rs: block lookup tables.  A HashMap built by inserting the          *)
(* definitions in order keeps, for a number, the last definition with it.  *)
(***************************************************************************)
\* the index in block_defs of the definition the map holds for n, 0 if none
block_defs_by_number(block_defs, n) ==
    LET hits == {i \in DOMAIN block_defs : block_defs[i].number = n}
    IN IF hits = {} THEN 0 ELSE CHOOSE i \in hits : \A j \in hits : j <= i

block_def_name(number, raw) ==
    IF raw = "" THEN "BLOCK_" \o ToString(number) ELSE raw

\* block_name_map(doc).get(n): Some(name) or None
block_name_map(block_defs, n) ==
    LET i == block_defs_by_number(block_defs, n)
    IN IF i = 0 THEN None
       ELSE Some(block_def_name(block_defs[i].number, block_defs[i].name))

rad_to_deg(rad) == rad

(***************************************************************************)
(* dxf.rs: convert_entity and its helpers.                                 *)
(***************************************************************************)
\* arc.flatness is a fraction <<n, d>> with d > 0
convert_arc(arc) ==
    LET n == arc.flatness[1]
        d == arc.flatness[2]
    IN IF arc.is_full_circle /\ n = d
       THEN <<DxfCircle(arc.center_x, arc.center_y, arc.radius)>>
       ELSE IF n # d
       THEN LET swap == n > d
                major_radius == IF swap THEN (arc.radius * n) \div d ELSE arc.radius
                minor_ratio == IF swap THEN <<d, n>> ELSE <<n, d>>
                tilt_angle == IF swap THEN arc.tilt_angle + 90 ELSE arc.tilt_angle
            IN <<DxfEllipse(arc.center_x, arc.center_y,
                            major_radius * Cos(tilt_angle),
                            major_radius * Sin(tilt_angle),
                            minor_ratio,
                            IF arc.is_full_circle THEN 0 ELSE arc.start_angle,
                            IF arc.is_full_circle THEN 360
                            ELSE arc.start_angle + arc.arc_angle)>>
       ELSE <<DxfArc(arc.center_x, arc.center_y, arc.radius,
                     rad_to_deg(arc.start_angle),
                     rad_to_deg(arc.start_angle + arc.arc_angle))>>

convert_text(text) ==
    DxfText(text.start_x, text.start_y,
            IF text.size_y <= 0 THEN <<5, 2>> ELSE <<text.size_y, 1>>,
            text.angle, text.content)

convert_point_keep_temporary(point) == Some(<<DxfPoint(point.x, point.y)>>)

\* convert_point giving no conversion for a temporary point
convert_point_unsupported_temporary(point) ==
    IF point.is_temporary THEN None
    ELSE Some(<<DxfPoint(point.x, point.y)>>)

convert_point(point) ==
    IF point.is_temporary THEN Some(<<>>)
    ELSE Some(<<DxfPoint(point.x, point.y)>>)

convert_entity(block_defs, entity) ==
    CASE entity.kind = "Line" ->
           Some(<<DxfLine(entity.start_x, entity.start_y, entity.end_x, entity.end_y)>>)
      [] entity.kind = "Arc" -> Some(convert_arc(entity))
      [] entity.kind = "Point" -> convert_point(entity)
      [] entity.kind = "Text" -> Some(<<convert_text(entity)>>)
      [] entity.kind = "Solid" ->
           Some(<<DxfSolid(entity.point1_x, entity.point1_y, entity.point2_x,
                           entity.point2_y, entity.point3_x, entity.point3_y,
                           entity.point4_x, entity.point4_y)>>)
      [] entity.kind = "Block" ->
           LET found == block_name_map(block_defs, entity.def_number)
               block_name == IF found.is_some THEN found.value
                             ELSE "BLOCK_" \o ToString(entity.def_number)
           IN Some(<<DxfInsert(block_name, entity.ref_x, entity.ref_y,
                               entity.scale_x, entity.scale_y,
                               rad_to_deg(entity.rotation))>>)
      [] entity.kind = "Dimension" ->
           Some(<<DxfLine(entity.line.start_x, entity.line.start_y,
                          entity.line.end_x, entity.line.end_y),
                  convert_text(entity.text)>>)

\* convert_entities: the converted list and the diagnostics it appends
RECURSIVE convert_entities(_, _)
convert_entities(block_defs, entities) ==
    IF entities = <<>> THEN [out |-> <<>>, unsupported |-> <<>>]
    ELSE LET c == convert_entity(block_defs, Head(entities))
             rest == convert_entities(block_defs, Tail(entities))
         IN IF c.is_some
            THEN [out |-> c.value \o rest.out, unsupported |-> rest.unsupported]
            ELSE [out |-> rest.out,
                  unsupported |-> <<entity_type(Head(entities))>> \o rest.unsupported]

\* convert_blocks: one DxfBlock per definition, in order
convert_blocks(block_defs) ==
    [blocks |-> [i \in DOMAIN block_defs |->
                   DxfBlock(block_def_name(block_defs[i].number, block_defs[i].name),
                            convert_entities(block_defs, block_defs[i].entities).out)],
     unsupported |-> Flatten([i \in DOMAIN block_defs |->
                   convert_entities(block_defs, block_defs[i].entities).unsupported])]

(***************************************************************************)
(* dxf.rs: the explode transforms.  A point sampled on a curve at a        *)
(* parameter that is no quarter turn has no integer coordinates: it is     *)
(* kept as the term [transform, curve, i, segments] (sample i of segments),*)
(* and its coordinates as the terms [axis, of].                            *)
(***************************************************************************)
CeilDiv(n, d) == (n + d - 1) \div d
clamp(v, lo, hi) == IF v < lo THEN lo ELSE IF v > hi THEN hi ELSE v

\* the number of LINEs an ARC is flattened into
arc_segments(start_angle, end_angle) ==
    LET end == IF end_angle < start_angle THEN end_angle + 360 ELSE end_angle
        sweep == Abs(end - start_angle)
    IN clamp(CeilDiv(sweep * 96, 360), 8, 192)

\* the number of LINEs an ELLIPSE is flattened into
ellipse_segments(start_param, end_param) ==
    LET end == IF end_param <= start_param THEN end_param + 360 ELSE end_param
        span == Abs(end - start_param)
    IN clamp(CeilDiv(span * 128, 360), 12, 256)

SampledPoint(transform, curve, i, segments) ==
    LET p == [transform |-> transform, curve |-> curve, i |-> i, segments |-> segments]
    IN <<[axis |-> "x", of |-> p], [axis |-> "y", of |-> p]>>

points_to_lines(points) ==
    IF Len(points) < 2 THEN <<>>
    ELSE [k \in 1..(Len(points) - 1) |->
            DxfLine(points[k][1], points[k][2], points[k + 1][1], points[k + 1][2])]

\* transform_circle_for_explode without its rule for a circle of no extent
transform_circle_without_point_rule(circle, transform) ==
    LET center == apply_point(transform, circle.center_x, circle.center_y)
        u == apply_vector(transform, circle.radius, 0)
        v == apply_vector(transform, 0, circle.radius)
    IN <<DxfCircle(center[1], center[2], (Hypot(u[1], u[2]) + Hypot(v[1], v[2])) \div 2)>>

transform_circle_for_explode(circle, transform) ==
    LET center == apply_point(transform, circle.center_x, circle.center_y)
        u == apply_vector(transform, circle.radius, 0)
        v == apply_vector(transform, 0, circle.radius)
        lu == Hypot(u[1], u[2])
        lv == Hypot(v[1], v[2])
        dotnum == u[1] * v[1] + u[2] * v[2]
    IN IF lu = 0 /\ lv = 0
       THEN <<DxfPoint(center[1], center[2])>>
       ELSE IF lu = lv /\ (lu * lv = 0 \/ dotnum = 0)
       THEN <<DxfCircle(center[1], center[2], (lu + lv) \div 2)>>
       ELSE IF lu >= lv
       THEN <<DxfEllipse(center[1], center[2], u[1], u[2], <<lv, lu>>, 0, 360)>>
       ELSE <<DxfEllipse(center[1], center[2], v[1], v[2], <<lu, lv>>, 0, 360)>>

transform_arc_for_explode(arc, transform) ==
    LET segments == arc_segments(arc.start_angle, arc.end_angle)
    IN points_to_lines([k \in 1..(segments + 1) |->
                          SampledPoint(transform, arc, k - 1, segments)])

transform_ellipse_for_explode(ellipse, transform) ==
    LET segments == ellipse_segments(ellipse.start_param, ellipse.end_param)
    IN points_to_lines([k \in 1..(segments + 1) |->
                          SampledPoint(transform, ellipse, k - 1, segments)])

\* (height * |average_scale|).max(0.1), height = <<n, d>>
scaled_height(height, transform) ==
    LET n == height[1] * average_scale_x2(transform)
        d == height[2] * 2
    IN IF n * 10 < d THEN <<1, 10>> ELSE <<n, d>>

transform_entity_for_explode(entity, transform) ==
    CASE entity.type = "LINE" ->
           LET p1 == apply_point(transform, entity.x1, entity.y1)
               p2 == apply_point(transform, entity.x2, entity.y2)
           IN <<DxfLine(p1[1], p1[2], p2[1], p2[2])>>
      [] entity.type = "CIRCLE" -> transform_circle_for_explode(entity, transform)
      [] entity.type = "ARC" -> transform_arc_for_explode(entity, transform)
      [] entity.type = "ELLIPSE" -> transform_ellipse_for_explode(entity, transform)
      [] entity.type = "POINT" ->
           LET p == apply_point(transform, entity.x, entity.y)
           IN <<DxfPoint(p[1], p[2])>>
      [] entity.type = "TEXT" ->
           LET p == apply_point(transform, entity.x, entity.y)
           IN <<DxfText(p[1], p[2], scaled_height(entity.height, transform),
                        entity.rotation + rotation_deg(transform), entity.content)>>
      [] entity.type = "SOLID" ->
           LET p1 == apply_point(transform, entity.x1, entity.y1)
               p2 == apply_point(transform, entity.x2, entity.y2)
               p3 == apply_point(transform, entity.x3, entity.y3)
               p4 == apply_point(transform, entity.x4, entity.y4)
           IN <<DxfSolid(p1[1], p1[2], p2[1], p2[2], p3[1], p3[2], p4[1], p4[2])>>
      [] entity.type = "INSERT" ->
           LET p == apply_point(transform, entity.x, entity.y)
           IN <<DxfInsert(entity.block_name, p[1], p[2], entity.scale_x,
                          entity.scale_y, entity.rotation + rotation_deg(transform))>>

\* the DXF entities one non-block source entity contributes under `transform`
explode_leaf(block_defs, entity, transform) ==
    LET c == convert_entity(block_defs, entity)
    IN IF c.is_some
       THEN [out |-> Flatten([k \in DOMAIN c.value |->
                        transform_entity_for_explode(c.value[k], transform)]),
             unsupported |-> <<>>]
       ELSE [out |-> <<>>, unsupported |-> <<entity_type(entity)>>]

(***************************************************************************)
(* reader.rs: Reader.  data is the byte sequence, pos the cursor           *)
(* (bytes_read).  A read returns Ok with the value and the new cursor, or  *)
(* Err with the cursor where it stood: a failed read consumes nothing.     *)
(* An f64 is kept as its eight bytes (from_le_bytes is one-to-one on bit   *)
(* patterns); a decoded string is kept as its sequence of byte codes.      *)
(***************************************************************************)
Ok(v, p) == [ok |-> TRUE, value |-> v, pos |-> p]
Err(e, p) == [ok |-> FALSE, err |-> e, pos |-> p]

\* error.rs: JwwError
InvalidSignature == [kind |-> "InvalidSignature"]
UnexpectedEof == [kind |-> "UnexpectedEof"]
EntityListNotFound == [kind |-> "EntityListNotFound"]
UnknownClassPid(class_pid) == [kind |-> "UnknownClassPid", pid |-> class_pid]
UnknownEntityClass(class_name) == [kind |-> "UnknownEntityClass", name |-> class_name]

\* the ? operator: continue with F on Ok, return the error otherwise
AndThen(r, F(_)) == IF r.ok THEN F(r) ELSE r

\* a call that does not return: the thread panics with this message
Panic(message, p) == [ok |-> FALSE, err |-> [kind |-> "panic", message |-> message], pos |-> p]

\* usize::checked_add: None on overflow (usize is modelled 31 bits wide)
checked_add(a, b1) == IF b1 > UsizeMax - a THEN None ELSE Some(a + b1)

read_exact_into(d, pos, n) ==
    LET end == checked_add(pos, n)
    IN IF end = None THEN Err(UnexpectedEof, pos)
       ELSE IF end.value > Len(d) THEN Err(UnexpectedEof, pos)
       ELSE Ok(SubSeq(d, pos + 1, end.value), end.value)

read_exact(d, pos, n) == read_exact_into(d, pos, n)

skip(d, pos, len) ==
    LET new_pos == checked_add(pos, len)
    IN IF new_pos = None THEN Err(UnexpectedEof, pos)
       ELSE IF new_pos.value > Len(d) THEN Err(UnexpectedEof, pos)
       ELSE Ok(<<>>, new_pos.value)

from_le_bytes(bytes) ==
    LET RECURSIVE le(_)
        le(k) == IF k > Len(bytes) THEN 0 ELSE bytes[k] + 256 * le(k + 1)
    IN le(1)

read_u8(d, pos) ==
    AndThen(read_exact(d, pos, 1), LAMBDA r : Ok(r.value[1], r.pos))
read_u16(d, pos) ==
    AndThen(read_exact(d, pos, 2), LAMBDA r : Ok(from_le_bytes(r.value), r.pos))
read_u32(d, pos) ==
    AndThen(read_exact(d, pos, 4), LAMBDA r : Ok(from_le_bytes(r.value), r.pos))
read_f64(d, pos) == read_exact(d, pos, 8)

\* vec![0_u8; len] panics when len is above isize::MAX, before any byte is read
vec_zeroed_panics(len) == len > IsizeMax

read_bytes(d, pos, len) ==
    IF vec_zeroed_panics(len) THEN Panic("capacity overflow", pos)
    ELSE read_exact_into(d, pos, len)

RECURSIVE trim_end_nul(_)
trim_end_nul(str) ==
    IF str # <<>> /\ str[Len(str)] = 0
    THEN trim_end_nul(SubSeq(str, 1, Len(str) - 1))
    ELSE str

read_cstring_len_one_byte(d, pos) == read_u8(d, pos)

\* the length prefix of a CString: one byte, or 0xFF and a word, or 0xFF 0xFFFF
\* and a double word
read_cstring_len(d, pos) ==
    AndThen(read_u8(d, pos), LAMBDA len_byte :
        IF len_byte.value < 255 THEN len_byte
        ELSE AndThen(read_u16(d, len_byte.pos), LAMBDA word_len :
                 IF word_len.value < 65535 THEN word_len
                 ELSE read_u32(d, word_len.pos)))

read_cstring(d, pos) ==
    AndThen(read_cstring_len(d, pos), LAMBDA len :
        IF len.value = 0 THEN Ok(<<>>, len.pos)
        ELSE AndThen(read_bytes(d, len.pos, len.value), LAMBDA bytes :
                 Ok(trim_end_nul(bytes.value), bytes.pos)))

\* a run of reads, each with ?: kinds names the read of every field in turn
read_field(d, pos, kind) ==
    CASE kind = "u8" -> read_u8(d, pos)
      [] kind = "u16" -> read_u16(d, pos)
      [] kind = "u32" -> read_u32(d, pos)
      [] kind = "f64" -> read_f64(d, pos)
      [] kind = "cstring" -> read_cstring(d, pos)

\* the reads of a run of fields, one after the other, each with ?: the run is
\* taken in two halves, the second from where the first ended
RECURSIVE read_fields_from(_, _, _, _)
read_fields_from(d, pos, kinds, got) ==
    IF kinds = <<>> THEN Ok(got, pos)
    ELSE IF Len(kinds) = 1
    THEN AndThen(read_field(d, pos, kinds[1]), LAMBDA r :
             Ok(Append(got, r.value), r.pos))
    ELSE AndThen(read_fields_from(d, pos, SubSeq(kinds, 1, Len(kinds) \div 2), got),
             LAMBDA r : read_fields_from(d, r.pos,
                            SubSeq(kinds, Len(kinds) \div 2 + 1, Len(kinds)), r.value))

read_fields(d, pos, kinds) == read_fields_from(d, pos, kinds, <<>>)

(***************************************************************************)
(* parser.rs: the entity records.                                          *)
(***************************************************************************)
Name_CDataSen == <<67, 68, 97, 116, 97, 83, 101, 110>>
Name_CDataEnko == <<67, 68, 97, 116, 97, 69, 110, 107, 111>>
Name_CDataTen == <<67, 68, 97, 116, 97, 84, 101, 110>>
Name_CDataMoji == <<67, 68, 97, 116, 97, 77, 111, 106, 105>>
Name_CDataSolid == <<67, 68, 97, 116, 97, 83, 111, 108, 105, 100>>
Name_CDataBlock == <<67, 68, 97, 116, 97, 66, 108, 111, 99, 107>>
Name_CDataSunpou == <<67, 68, 97, 116, 97, 83, 117, 110, 112, 111, 117>>
Name_CDataList == <<67, 68, 97, 116, 97, 76, 105, 115, 116>>
Name_CDataXXXX == <<67, 68, 97, 116, 97, 88, 88, 88, 88>>

\* parse_entity_base reading pen_width whatever the version
parse_entity_base_with_pen_width(d, pos, ver) ==
    AndThen(read_fields(d, pos, <<"u32", "u8", "u16", "u16", "u16", "u16", "u16">>),
        LAMBDA f : Ok([group |-> f.value[1], pen_style |-> f.value[2],
                       pen_color |-> f.value[3], pen_width |-> f.value[4],
                       layer |-> f.value[5], layer_group |-> f.value[6],
                       flag |-> f.value[7]], f.pos))

parse_entity_base(d, pos, ver) ==
    IF ver >= 351
    THEN AndThen(read_fields(d, pos, <<"u32", "u8", "u16", "u16", "u16", "u16", "u16">>),
             LAMBDA f : Ok([group |-> f.value[1], pen_style |-> f.value[2],
                            pen_color |-> f.value[3], pen_width |-> f.value[4],
                            layer |-> f.value[5], layer_group |-> f.value[6],
                            flag |-> f.value[7]], f.pos))
    ELSE AndThen(read_fields(d, pos, <<"u32", "u8", "u16", "u16", "u16", "u16">>),
             LAMBDA f : Ok([group |-> f.value[1], pen_style |-> f.value[2],
                            pen_color |-> f.value[3], pen_width |-> 0,
                            layer |-> f.value[4], layer_group |-> f.value[5],
                            flag |-> f.value[6]], f.pos))

parse_line(d, pos, ver) ==
    AndThen(parse_entity_base(d, pos, ver), LAMBDA base :
    AndThen(read_fields(d, base.pos, <<"f64", "f64", "f64", "f64">>), LAMBDA f :
        Ok([kind |-> "Line", base |-> base.value, start_x |-> f.value[1],
            start_y |-> f.value[2], end_x |-> f.value[3], end_y |-> f.value[4]],
           f.pos)))

parse_arc(d, pos, ver) ==
    AndThen(parse_entity_base(d, pos, ver), LAMBDA base :
    AndThen(read_fields(d, base.pos,
                <<"f64", "f64", "f64", "f64", "f64", "f64", "f64", "u32">>), LAMBDA f :
        Ok([kind |-> "Arc", base |-> base.value, center_x |-> f.value[1],
            center_y |-> f.value[2], radius |-> f.value[3],
            start_angle |-> f.value[4], arc_angle |-> f.value[5],
            tilt_angle |-> f.value[6], flatness |-> f.value[7],
            is_full_circle |-> f.value[8] # 0], f.pos)))

\* (code, angle, scale): read only when pen_style is 100
parse_point_symbol(d, pos, pen_style) ==
    IF pen_style = 100
    THEN read_fields(d, pos, <<"u32", "f64", "f64">>)
    ELSE Ok(<<0, <<0, 0, 0, 0, 0, 0, 0, 0>>, <<0, 0, 0, 0, 0, 0, 0, 0>>>>, pos)

parse_point(d, pos, ver) ==
    AndThen(parse_entity_base(d, pos, ver), LAMBDA base :
    AndThen(read_fields(d, base.pos, <<"f64", "f64", "u32">>), LAMBDA f :
    AndThen(parse_point_symbol(d, f.pos, base.value.pen_style), LAMBDA g :
        Ok([kind |-> "Point", base |-> base.value, x |-> f.value[1], y |-> f.value[2],
            is_temporary |-> f.value[3] # 0, code |-> g.value[1],
            angle |-> g.value[2], scale |-> g.value[3]], g.pos))))

parse_text(d, pos, ver) ==
    AndThen(parse_entity_base(d, pos, ver), LAMBDA base :
    AndThen(read_fields(d, base.pos,
                <<"f64", "f64", "f64", "f64", "u32", "f64", "f64", "f64", "f64",
                  "cstring", "cstring">>), LAMBDA f :
        Ok([kind |-> "Text", base |-> base.value, start_x |-> f.value[1],
            start_y |-> f.value[2], end_x |-> f.value[3], end_y |-> f.value[4],
            text_type |-> f.value[5], size_x |-> f.value[6], size_y |-> f.value[7],
            spacing |-> f.value[8], angle |-> f.value[9], font_name |-> f.value[10],
            content |-> f.value[11]], f.pos)))

\* color: read only when pen_color is 10
parse_solid_color(d, pos, pen_color) ==
    IF pen_color = 10
    THEN AndThen(read_u32(d, pos), LAMBDA c : Ok(Some(c.value), c.pos))
    ELSE Ok(None, pos)

parse_solid(d, pos, ver) ==
    AndThen(parse_entity_base(d, pos, ver), LAMBDA base :
    AndThen(read_fields(d, base.pos,
                <<"f64", "f64", "f64", "f64", "f64", "f64", "f64", "f64">>), LAMBDA f :
    AndThen(parse_solid_color(d, f.pos, base.value.pen_color), LAMBDA color :
        Ok([kind |-> "Solid", base |-> base.value,
            point1_x |-> f.value[1], point1_y |-> f.value[2],
            point4_x |-> f.value[3], point4_y |-> f.value[4],
            point2_x |-> f.value[5], point2_y |-> f.value[6],
            point3_x |-> f.value[7], point3_y |-> f.value[8],
            color |-> color.value], color.pos))))

parse_block(d, pos, ver) ==
    AndThen(parse_entity_base(d, pos, ver), LAMBDA base :
    AndThen(read_fields(d, base.pos, <<"f64", "f64", "f64", "f64", "f64", "u32">>),
        LAMBDA f :
        Ok([kind |-> "Block", base |-> base.value, ref_x |-> f.value[1],
            ref_y |-> f.value[2], scale_x |-> f.value[3], scale_y |-> f.value[4],
            rotation |-> f.value[5], def_number |-> f.value[6]], f.pos)))

\* n records in a row, each read by parse_one (the for loops of parse_dimension)
RECURSIVE parse_repeated(_, _, _, _, _, _)
parse_repeated(parse_one(_, _, _), d, pos, ver, n, got) ==
    IF n = 0 THEN Ok(got, pos)
    ELSE AndThen(parse_one(d, pos, ver), LAMBDA r :
             parse_repeated(parse_one, d, r.pos, ver, n - 1, Append(got, r.value)))

parse_dimension(d, pos, ver) ==
    AndThen(parse_entity_base(d, pos, ver), LAMBDA base :
    AndThen(parse_line(d, base.pos, ver), LAMBDA line :
    AndThen(parse_text(d, line.pos, ver), LAMBDA text :
        IF ver >= 420
        THEN AndThen(read_u16(d, text.pos), LAMBDA sxf_mode :
             AndThen(parse_repeated(parse_line, d, sxf_mode.pos, ver, 2, <<>>),
                 LAMBDA aux_lines :
             AndThen(parse_repeated(parse_point, d, aux_lines.pos, ver, 4, <<>>),
                 LAMBDA aux_points :
                 Ok([kind |-> "Dimension", base |-> base.value, line |-> line.value,
                     text |-> text.value, sxf_mode |-> Some(sxf_mode.value),
                     aux_lines |-> aux_lines.value, aux_points |-> aux_points.value],
                    aux_points.pos))))
        ELSE Ok([kind |-> "Dimension", base |-> base.value, line |-> line.value,
                 text |-> text.value, sxf_mode |-> None, aux_lines |-> <<>>,
                 aux_points |-> <<>>], text.pos))))

(***************************************************************************)
(* parser.rs: parse_entity_list and the block definition records.          *)
(***************************************************************************)
insert_nothing(map, key, v) == map

\* HashMap::insert
insert(map, key, v) == [k \in DOMAIN map \cup {key} |-> IF k = key THEN v ELSE map[k]]

unmasked_class_pid(class_id) == class_id

\* (class_id & 0x7FFF) as u32
masked_class_pid(class_id) == class_id % 32768

parse_entity_of_class(d, pos, ver, class_name) ==
    CASE class_name = Name_CDataSen -> parse_line(d, pos, ver)
      [] class_name = Name_CDataEnko -> parse_arc(d, pos, ver)
      [] class_name = Name_CDataTen -> parse_point(d, pos, ver)
      [] class_name = Name_CDataMoji -> parse_text(d, pos, ver)
      [] class_name = Name_CDataSolid -> parse_solid(d, pos, ver)
      [] class_name = Name_CDataBlock -> parse_block(d, pos, ver)
      [] class_name = Name_CDataSunpou -> parse_dimension(d, pos, ver)
      [] OTHER -> Err(UnknownEntityClass(class_name), pos)

\* the value is [entity, next_pid, pid_to_class_name]
parse_entity_with_pid_tracking(d, pos, ver, pid_to_class_name, next_pid) ==
    AndThen(read_u16(d, pos), LAMBDA class_id :
        IF class_id.value = 65535
        THEN AndThen(read_fields(d, class_id.pos, <<"u16", "u16">>), LAMBDA h :
             AndThen(read_bytes(d, h.pos, h.value[2]), LAMBDA name :
             AndThen(parse_entity_of_class(d, name.pos, ver, name.value), LAMBDA e :
                 Ok([entity |-> Some(e.value), next_pid |-> next_pid + 2,
                     pid_to_class_name |->
                         insert(pid_to_class_name, next_pid, name.value)],
                    e.pos))))
        ELSE IF class_id.value = 32768
        THEN Ok([entity |-> None, next_pid |-> next_pid,
                 pid_to_class_name |-> pid_to_class_name], class_id.pos)
        ELSE LET class_pid == masked_class_pid(class_id.value)
             IN IF class_pid \notin DOMAIN pid_to_class_name
                THEN Err(UnknownClassPid(class_pid), class_id.pos)
                ELSE AndThen(parse_entity_of_class(d, class_id.pos, ver,
                                                   pid_to_class_name[class_pid]),
                         LAMBDA e :
                         Ok([entity |-> Some(e.value), next_pid |-> next_pid + 1,
                             pid_to_class_name |-> pid_to_class_name], e.pos)))

RECURSIVE parse_entity_loop(_, _, _, _, _, _, _)
parse_entity_loop(d, pos, ver, count, pid_to_class_name, next_pid, entities) ==
    IF count = 0 THEN Ok(entities, pos)
    ELSE AndThen(parse_entity_with_pid_tracking(d, pos, ver, pid_to_class_name, next_pid),
             LAMBDA r :
             parse_entity_loop(d, r.pos, ver, count - 1, r.value.pid_to_class_name,
                 r.value.next_pid,
                 IF r.value.entity = None THEN entities
                 ELSE Append(entities, r.value.entity.value)))

\* parse_entity_list started with a dictionary that already holds a class
parse_entity_list_with_class(d, pos, ver) ==
    AndThen(read_u16(d, pos), LAMBDA count :
        parse_entity_loop(d, count.pos, ver, count.value,
                          insert(<<>>, 1, Name_CDataSen), 2, <<>>))

parse_entity_list(d, pos, ver) ==
    AndThen(read_u16(d, pos), LAMBDA count :
        parse_entity_loop(d, count.pos, ver, count.value, <<>>, 1, <<>>))

\* Result::unwrap_or_default on a list: the list, or the empty list on an error;
\* the reader stays where the failed parse left it
unwrap_or_default(r) == IF r.ok THEN r ELSE Ok(<<>>, r.pos)

saturating_add(a, b1) == Min2(a + b1, 65535)

\* the class of a block definition record: a 0xFFFF record defines a class
\* and takes the next id.  The value is [next_id, class_map].
parse_block_def_class(d, pos, class_id, cmap, nid) ==
    IF class_id = 65535
    THEN AndThen(read_fields(d, pos, <<"u16", "u16">>), LAMBDA h :
         AndThen(read_bytes(d, h.pos, h.value[2]), LAMBDA name :
             Ok([next_id |-> saturating_add(nid, 1),
                 class_map |-> insert(cmap, nid, name.value)], name.pos)))
    ELSE Ok([next_id |-> nid, class_map |-> cmap], pos)

\* parse_block_def_with_tracking up to the nested list: class id, base, number,
\* is_referenced, CTime, name.  The value is [head, next_id, class_map]; head is
\* None for the 0x8000 record.
parse_block_def_head(d, pos, ver, cmap, nid) ==
    AndThen(read_u16(d, pos), LAMBDA class_id :
        IF class_id.value = 32768
        THEN Ok([head |-> None, next_id |-> nid, class_map |-> cmap], class_id.pos)
        ELSE
        AndThen(parse_block_def_class(d, class_id.pos, class_id.value, cmap, nid),
            LAMBDA cls :
        AndThen(parse_entity_base(d, cls.pos, ver), LAMBDA base :
        AndThen(read_fields(d, base.pos, <<"u32", "u32">>), LAMBDA f :
        AndThen(skip(d, f.pos, 4), LAMBDA ctime :
        AndThen(read_cstring(d, ctime.pos), LAMBDA name :
            Ok([head |-> Some([base |-> base.value, number |-> f.value[1],
                               is_referenced |-> f.value[2] # 0,
                               name |-> name.value]),
                next_id |-> cls.value.next_id, class_map |-> cls.value.class_map],
               name.pos)))))))

\* the value is [block_def, next_id, class_map]
parse_block_def_with_tracking(d, pos, ver, cmap, nid) ==
    AndThen(parse_block_def_head(d, pos, ver, cmap, nid), LAMBDA h :
        IF h.value.head = None
        THEN Ok([block_def |-> None, next_id |-> h.value.next_id,
                 class_map |-> h.value.class_map], h.pos)
        ELSE AndThen(unwrap_or_default(parse_entity_list(d, h.pos, ver)), LAMBDA es :
                 Ok([block_def |->
                        Some([base |-> h.value.head.value.base,
                              number |-> h.value.head.value.number,
                              is_referenced |-> h.value.head.value.is_referenced,
                              name |-> h.value.head.value.name,
                              entities |-> es.value]),
                     next_id |-> h.value.next_id, class_map |-> h.value.class_map],
                    es.pos)))

(***************************************************************************)
(* header.rs: parse_header.  Names are kept as sequences of byte codes.    *)
(***************************************************************************)
JWW_SIGNATURE == <<74, 119, 119, 68, 97, 116, 97, 46>>        \* b"JwwData."

is_jww_signature(d) ==
    Len(d) >= Len(JWW_SIGNATURE) /\ SubSeq(d, 1, Len(JWW_SIGNATURE)) = JWW_SIGNATURE

\* format!("{:X}", n): the uppercase hexadecimal digits of n, as byte codes
RECURSIVE upper_hex(_)
upper_hex(n) ==
    LET digit == IF n % 16 < 10 THEN 48 + (n % 16) ELSE 55 + (n % 16)
    IN IF n < 16 THEN <<digit>> ELSE Append(upper_hex(n \div 16), digit)

default_layer_name(g_idx, l_idx) == upper_hex(g_idx) \o <<45>> \o upper_hex(l_idx)
default_group_name(g_idx) == <<71, 114, 111, 117, 112>> \o upper_hex(g_idx)

\* one turn of the loop over layer_groups: state, write_layer, scale, protect
\* and the state and protect of its 16 layers; the names are still empty
parse_layer_group(d, pos) ==
    AndThen(read_fields(d, pos, <<"u32", "u32", "f64", "u32">>), LAMBDA f :
    AndThen(read_fields(d, f.pos, [k \in 1..32 |-> "u32"]), LAMBDA ls :
        Ok([state |-> f.value[1], write_layer |-> f.value[2], scale |-> f.value[3],
            protect |-> f.value[4],
            layers |-> [l \in 1..16 |->
                           [state |-> ls.value[2 * l - 1], protect |-> ls.value[2 * l],
                            name |-> <<>>]],
            name |-> <<>>], ls.pos)))

\* the loop over layer_groups: n turns from pos, taken in two halves, the
\* second from where the first ended
RECURSIVE parse_layer_groups(_, _, _, _)
parse_layer_groups(d, pos, n, got) ==
    IF n = 0 THEN Ok(got, pos)
    ELSE IF n = 1
    THEN AndThen(parse_layer_group(d, pos), LAMBDA r : Ok(got \o <<r.value>>, r.pos))
    ELSE AndThen(parse_layer_groups(d, pos, n \div 2, <<>>), LAMBDA a :
         AndThen(parse_layer_groups(d, a.pos, n - n \div 2, <<>>), LAMBDA b :
             Ok(got \o a.value \o b.value, b.pos)))

\* the 16 layer names of each of the 16 groups, group after group
RECURSIVE read_layer_names(_, _, _, _)
read_layer_names(d, pos, n, got) ==
    IF n = 0 THEN Ok(got, pos)
    ELSE IF n = 1
    THEN AndThen(read_fields(d, pos, [k \in 1..16 |-> "cstring"]), LAMBDA r :
             Ok(Append(got, r.value), r.pos))
    ELSE AndThen(read_layer_names(d, pos, n \div 2, got), LAMBDA r :
             read_layer_names(d, r.pos, n - n \div 2, r.value))

\* parse_layer_names without its test of the version
parse_layer_names_of_any_version(d, pos, ver) ==
    AndThen(skip(d, pos, (14 + 5 + 1 + 1) * 4), LAMBDA s1 :
    AndThen(skip(d, s1.pos, 16 + 8 + 4 + 4 + 8 + 16 + 16), LAMBDA s2 :
    AndThen(read_layer_names(d, s2.pos, 16, <<>>), LAMBDA layers :
    AndThen(read_fields(d, layers.pos, [k \in 1..16 |-> "cstring"]), LAMBDA groups :
        Ok([layers |-> layers.value, groups |-> groups.value], groups.pos)))))

\* the value is [layers, groups]: layers[g][l] and groups[g] as read
parse_layer_names(d, pos, ver) ==
    IF ver < 300 THEN Err(UnexpectedEof, pos)
    ELSE AndThen(skip(d, pos, (14 + 5 + 1 + 1) * 4), LAMBDA s1 :
         AndThen(skip(d, s1.pos, 16 + 8 + 4 + 4 + 8 + 16 + 16), LAMBDA s2 :
         AndThen(read_layer_names(d, s2.pos, 16, <<>>), LAMBDA layers :
         AndThen(read_fields(d, layers.pos, [k \in 1..16 |-> "cstring"]), LAMBDA groups :
             Ok([layers |-> layers.value, groups |-> groups.value], groups.pos)))))

apply_default_layer_names(layer_groups) ==
    [g \in 1..16 |->
        [layer_groups[g] EXCEPT
            !.name = default_group_name(g - 1),
            !.layers = [l \in 1..16 |->
                           [@[l] EXCEPT !.name = default_layer_name(g - 1, l - 1)]]]]

names_as_read(layer_groups, names) ==
    [g \in 1..16 |->
        [layer_groups[g] EXCEPT
            !.name = names.groups[g],
            !.layers = [l \in 1..16 |-> [@[l] EXCEPT !.name = names.layers[g][l]]]]]

\* the names as read, each blank one replaced by its default
apply_default_layer_names_for_blanks(layer_groups, names) ==
    [g \in 1..16 |->
        [layer_groups[g] EXCEPT
            !.name = IF names.groups[g] = <<>> THEN default_group_name(g - 1)
                     ELSE names.groups[g],
            !.layers = [l \in 1..16 |->
                           [@[l] EXCEPT !.name =
                               IF names.layers[g][l] = <<>>
                               THEN default_layer_name(g - 1, l - 1)
                               ELSE names.layers[g][l]]]]]

\* lines 68-74: the names are optional; a failure to read them is not an error
named_layer_groups(d, pos, ver, layer_groups) ==
    LET names == parse_layer_names(d, pos, ver)
    IN IF ~names.ok THEN apply_default_layer_names(layer_groups)
       ELSE apply_default_layer_names_for_blanks(layer_groups, names.value)

parse_header(d) ==
    IF ~is_jww_signature(d) THEN Err(InvalidSignature, 0)
    ELSE AndThen(skip(d, 0, Len(JWW_SIGNATURE)), LAMBDA sig :
         AndThen(read_fields(d, sig.pos, <<"u32", "cstring", "u32", "u32">>), LAMBDA f :
         AndThen(parse_layer_groups(d, f.pos, 16, <<>>), LAMBDA groups :
             Ok([version |-> f.value[1], memo |-> f.value[2],
                 paper_size |-> f.value[3], write_layer_group |-> f.value[4],
                 layer_groups |->
                     named_layer_groups(d, groups.pos, f.value[1], groups.value)],
                groups.pos))))

(***************************************************************************)
(* parser.rs: find_entity_list_offset.  Positions are the offsets of the   *)
(* code (from 0): the byte at offset i is d[i + 1].                        *)
(***************************************************************************)
byte_at(d, i) == d[i + 1]

\* the test of one turn of the loop, at offset i
anchor_at(d, ver, i) ==
    /\ byte_at(d, i) = 255
    /\ byte_at(d, i + 1) = 255
    /\ byte_at(d, i + 2) = ver % 256
    /\ byte_at(d, i + 3) = (ver \div 256) % 256
    /\ LET name_len == byte_at(d, i + 4) + 256 * byte_at(d, i + 5)
       IN /\ name_len >= 8
          /\ name_len <= 32
          /\ i + 6 + name_len <= Len(d)
          /\ SubSeq(d, i + 7, i + 11) = <<67, 68, 97, 116, 97>>
          /\ i >= 2

last_candidate(candidates) == CHOOSE i \in candidates : \A j \in candidates : j <= i

\* the loop runs i upward and returns at the first offset that passes the test
first_candidate(candidates) == CHOOSE i \in candidates : \A j \in candidates : i <= j

find_entity_list_offset(d, ver) ==
    IF Len(d) < 128 THEN None
    ELSE LET candidates == {i \in 100..(Len(d) - 21) : anchor_at(d, ver, i)}
         IN IF candidates = {} THEN None
            ELSE Some(first_candidate(candidates) - 2)

(***************************************************************************)
(* The documents the conversion is run on.                                 *)
(***************************************************************************)
LineE == Line(0, 0, 1, 0)
CircleE == Arc(1, 1, 2, 0, 0, 0, <<1, 1>>, TRUE)
ArcE == Arc(0, 0, 1, 0, 90, 0, <<1, 1>>, FALSE)
EllipseE == Arc(0, 0, 1, 0, 30, 0, <<2, 1>>, FALSE)
PointE == Point(1, 2, FALSE)
TempPointE == Point(3, 4, TRUE)
TextE == Text(1, 1, 0, 0, "T")
SolidE == Solid(0, 0, 1, 0, 1, 1, 0, 1)
DimensionE == Dimension(Line(0, 1, 10, 1), Text(5, 2, 1, 0, "1000"))

LeafPool ==
    {LineE, CircleE, ArcE, EllipseE, PointE, TempPointE, TextE, SolidE, DimensionE}
AllLeaves ==
    <<LineE, CircleE, ArcE, EllipseE, PointE, TempPointE, TextE, SolidE, DimensionE>>

DefNumbers == 1..MaxDefs
RefNumbers == 1..(MaxDefs + 1)      \* MaxDefs + 1 names no definition

\* an insert of definition n at the top level, and one inside a definition
TopRef(n) == Block(10, 20, 2, IF n = 1 THEN 2 ELSE 1, IF n = 2 THEN 90 ELSE 0, n)
InnerRef(n) == Block(0, 2, 1, 1, 0, n)

BlockNames == [n \in DefNumbers |-> IF n = 1 THEN "" ELSE "B" \o ToString(n)]

\* Block graphs: every definition holds a line and at most one insert; the
\* numbers are 1..MaxDefs in order, or all 1 (duplicate numbers).
GraphBodies == {<<LineE>>} \cup {<<InnerRef(k), LineE>> : k \in RefNumbers}
GraphTables ==
    {[i \in DefNumbers |-> BlockDef(IF dup THEN 1 ELSE i, BlockNames[i], body[i])] :
        body \in [DefNumbers -> GraphBodies], dup \in BOOLEAN}
GraphTops ==
    {<<TopRef(k)>> : k \in RefNumbers}
      \cup {<<TopRef(k), TopRef(j)>> : k \in RefNumbers, j \in RefNumbers}
GraphDocs ==
    {[entities |-> top, block_defs |-> defs] : top \in GraphTops, defs \in GraphTables}

\* Entity kinds: any short list of entities over one definition holding every kind.
KindDocs ==
    {[entities |-> top, block_defs |-> <<BlockDef(1, "Door", AllLeaves)>>] :
        top \in SeqsUpTo(LeafPool \cup {TopRef(1), TopRef(2)}, MaxTop)}

\* Circles: full circles of flatness 1 at the top level, with a positive, a
\* zero and a negative radius.
CircleZeroE == Arc(1, 1, 0, 0, 0, 0, <<1, 1>>, TRUE)
CircleNegativeE == Arc(1, 1, -2, 0, 0, 0, <<1, 1>>, TRUE)
CircleDocs ==
    {[entities |-> top, block_defs |-> <<>>] :
        top \in SeqsUpTo({CircleE, CircleZeroE, CircleNegativeE}, MaxTop)}

\* Arcs: one arc of flatness 1 at the top level; the angles are in degrees.
\* The sweeps: short, a quarter turn, a whole turn and more in both
\* directions, none, and one that crosses 360 from a start of 350
ArcOf(start, sweep) == Arc(0, 0, 1, start, sweep, 0, <<1, 1>>, FALSE)
ArcPool ==
    {ArcOf(0, 10), ArcOf(0, 90), ArcOf(0, -90), ArcOf(350, 20), ArcOf(0, 0),
     ArcOf(0, 360), ArcOf(0, -360), ArcOf(0, 800), ArcOf(0, -400), ArcOf(90, -800)}
ArcDocs ==
    {[entities |-> <<arc>>, block_defs |-> <<>>] : arc \in ArcPool}
      \cup {[entities |-> <<TopRef(1)>>,
             block_defs |-> <<BlockDef(1, "Arcs", <<arc>>)>>] :
                arc \in {ArcOf(0, -90), ArcOf(0, -400)}}

\* max_block_nesting: every small value up to one more than the deepest
\* possible stack, and the largest value of the type
NestingValues == (0..(MaxDefs + 1)) \cup {UsizeMax}

(***************************************************************************)
(* State.                                                                  *)
(***************************************************************************)
VARIABLES
    doc,                   \* the JwwDocument given to convert_document_with_options
    options,               \* ConvertOptions
    pc,                    \* "start", "exploding", "done"
    frames,                \* the active calls of convert_entities_exploded
    expanding_stack,       \* def numbers being expanded
    unsupported_entities,  \* the diagnostics collected so far
    dxf,                   \* the DxfDocument returned (once pc = "done")
    validation,            \* the BlockReferenceValidation returned, once computed
    file,                  \* parse_document: the bytes it is given
    header,                \* parse_document: the JwwHeader, once decoded
    entity_list_offset,    \* parse_document: where the entity list was found
    data,                  \* parse_document: the file from the entity list on
    version,               \* parse_document: header.version
    parse_pc,              \* parse_document: "idle", "entities", "block_count",
                           \*                 "block_defs", "done"
    reader,                \* Reader: bytes_read() of the reader in use
    section_start,         \* block_data_start - entity_list_offset
    parsed,                \* the JwwDocument under construction
    class_map,             \* parse_block_def_list: class_map
    next_id,               \* parse_block_def_list: next_id
    remaining,             \* parse_block_def_list: iterations of the loop left
    result,                \* what parse_document returned: "none", "Ok", "Err"
    error,                 \* the JwwError returned with "Err"
    call,                  \* the function last called on its own, with its arguments
    returned,              \* what that call returned
    out_text,              \* AsciiDxfWriter: out, as the lines written so far
    next_handle,           \* AsciiDxfWriter: next_handle
    block_record_order,    \* AsciiDxfWriter: block_record_order
    block_record_handles,  \* AsciiDxfWriter: block_record_handles
    write_pc               \* write_document: the call it is about to make

parser_vars ==
    <<file, header, entity_list_offset, data, version, parse_pc, reader,
      section_start, parsed, class_map, next_id, remaining, result, error>>

call_vars == <<call, returned>>

writer_vars ==
    <<out_text, next_handle, block_record_order, block_record_handles, write_pc>>

vars ==
    <<doc, options, pc, frames, expanding_stack, unsupported_entities, dxf,
      validation, parser_vars, call_vars, writer_vars>>

NoDxf == [entities |-> <<>>, blocks |-> <<>>, unsupported_entities |-> <<>>]

NoDocument == [entities |-> <<>>, block_defs |-> <<>>]

\* no function has been called on its own
CallIdle ==
    /\ call = None
    /\ returned = None

\* AsciiDxfWriter::new()
WriterNew ==
    /\ out_text = <<>>
    /\ next_handle = 1
    /\ block_record_order = <<>>
    /\ block_record_handles = <<>>

\* the writer's variables when document_to_string is not running
WriterIdle ==
    /\ WriterNew
    /\ write_pc = "idle"

\* the parser's variables when parse_document is not running
ParserIdle ==
    /\ file = <<>>
    /\ header = None
    /\ entity_list_offset = 0
    /\ data = <<>>
    /\ version = 0
    /\ parse_pc = "idle"
    /\ reader = 0
    /\ section_start = 0
    /\ parsed = NoDocument
    /\ class_map = <<>>
    /\ next_id = 1
    /\ remaining = 0
    /\ result = "none"
    /\ error = None

\* the converter's variables before convert_document_with_options runs
ConverterAtStart ==
    /\ pc = "start"
    /\ frames = <<>>
    /\ expanding_stack = <<>>
    /\ unsupported_entities = <<>>
    /\ dxf = NoDxf

Init ==
    /\ \/ /\ doc \in GraphDocs
          /\ options \in {[explode_inserts |-> TRUE, max_block_nesting |-> m] :
                             m \in NestingValues}
       \/ /\ doc \in KindDocs \cup CircleDocs \cup ArcDocs
          /\ options \in {[explode_inserts |-> e, max_block_nesting |-> 32] :
                             e \in BOOLEAN}
    /\ ConverterAtStart
    /\ CallIdle
    /\ WriterIdle
    /\ validation = None
    /\ ParserIdle

(***************************************************************************)
(* dxf.rs: convert_entities_exploded, one step per loop iteration.         *)
(* A frame is one active call: src names its entity list (0: the top       *)
(* level, i: block_defs[i]), idx the next entity, out its output so far.   *)
(***************************************************************************)
Frame(src, transform) == [src |-> src, idx |-> 1, transform |-> transform, out |-> <<>>]

frame_entities(f) ==
    IF f.src = 0 THEN doc.entities ELSE doc.block_defs[f.src].entities

Top == frames[Len(frames)]
AtEntity == pc = "exploding" /\ Top.idx <= Len(frame_entities(Top))
Current == frame_entities(Top)[Top.idx]

depth_limit_off_by_one(stack, max) == Len(stack) > max

depth_limit_hit(stack, max) == Len(stack) >= max

on_stack_never(stack, n) == FALSE
on_stack_top_only(stack, n) == stack # <<>> /\ stack[Len(stack)] = n

on_stack(stack, n) == \E k \in DOMAIN stack : stack[k] = n

block_ref_outcome_cycle_first(stack, max, n, block_defs) ==
    IF on_stack(stack, n) THEN "BLOCK_CYCLE"
    ELSE IF depth_limit_hit(stack, max) THEN "BLOCK_DEPTH_LIMIT"
    ELSE IF block_defs_by_number(block_defs, n) = 0 THEN "UNRESOLVED_BLOCK"
    ELSE "expand"

\* what the loop does with a BlockRef to n: the tag it records, or "expand"
block_ref_outcome(stack, max, n, block_defs) ==
    IF depth_limit_hit(stack, max) THEN "BLOCK_DEPTH_LIMIT"
    ELSE IF on_stack(stack, n) THEN "BLOCK_CYCLE"
    ELSE IF block_defs_by_number(block_defs, n) = 0 THEN "UNRESOLVED_BLOCK"
    ELSE "expand"

Diagnostic(tag, n) == tag \o "(" \o ToString(n) \o ")"

skipped_block_as_insert(block_defs, block, transform) ==
    explode_leaf(block_defs, block, transform).out

\* the entities a skipped BlockRef contributes to the output
skipped_block_output(block_defs, block, transform) == <<>>

Advance(out) ==
    frames' = [frames EXCEPT ![Len(frames)] =
                  [@ EXCEPT !.idx = @ + 1, !.out = @ \o out]]

convert_start_explode ==
    /\ pc = "start"
    /\ options.explode_inserts
    /\ pc' = "exploding"
    /\ frames' = <<Frame(0, identity)>>
    /\ UNCHANGED <<call_vars, writer_vars, parser_vars, validation, doc, options,
                   expanding_stack, unsupported_entities, dxf>>

explode_block_skip ==
    /\ AtEntity
    /\ Current.kind = "Block"
    /\ LET outcome == block_ref_outcome(expanding_stack, options.max_block_nesting,
                                        Current.def_number, doc.block_defs)
       IN /\ outcome # "expand"
          /\ unsupported_entities' =
                Append(unsupported_entities, Diagnostic(outcome, Current.def_number))
          /\ Advance(skipped_block_output(doc.block_defs, Current, Top.transform))
    /\ UNCHANGED <<call_vars, writer_vars, parser_vars, validation, doc, options, pc,
                   expanding_stack, dxf>>

explode_block_expand ==
    /\ AtEntity
    /\ Current.kind = "Block"
    /\ block_ref_outcome(expanding_stack, options.max_block_nesting,
                         Current.def_number, doc.block_defs) = "expand"
    /\ Len(frames) < MaxFrames
    /\ expanding_stack' = Append(expanding_stack, Current.def_number)
    /\ frames' = Append(frames,
                    Frame(block_defs_by_number(doc.block_defs, Current.def_number),
                          compose(Top.transform, from_insert(Current))))
    /\ UNCHANGED <<call_vars, writer_vars, parser_vars, validation, doc, options, pc,
                   unsupported_entities, dxf>>

explode_entity ==
    /\ AtEntity
    /\ Current.kind # "Block"
    /\ LET r == explode_leaf(doc.block_defs, Current, Top.transform)
       IN /\ Advance(r.out)
          /\ unsupported_entities' = unsupported_entities \o r.unsupported
    /\ UNCHANGED <<call_vars, writer_vars, parser_vars, validation, doc, options, pc,
                   expanding_stack, dxf>>

\* a nested call returns: pop, and the caller extends its output
explode_return ==
    /\ pc = "exploding"
    /\ Len(frames) > 1
    /\ Top.idx > Len(frame_entities(Top))
    /\ expanding_stack' = SubSeq(expanding_stack, 1, Len(expanding_stack) - 1)
    /\ frames' = [SubSeq(frames, 1, Len(frames) - 1) EXCEPT ![Len(frames) - 1] =
                    [@ EXCEPT !.idx = @ + 1, !.out = @ \o Top.out]]
    /\ UNCHANGED <<call_vars, writer_vars, parser_vars, validation, doc, options, pc,
                   unsupported_entities, dxf>>

\* the outermost call returns, and convert_document_with_options with it
explode_finish ==
    /\ pc = "exploding"
    /\ Len(frames) = 1
    /\ Top.idx > Len(frame_entities(Top))
    /\ dxf' = [entities |-> Top.out, blocks |-> <<>>,
               unsupported_entities |-> unsupported_entities]
    /\ frames' = <<>>
    /\ pc' = "done"
    /\ UNCHANGED <<call_vars, writer_vars, parser_vars, validation, doc, options,
                   expanding_stack, unsupported_entities>>

\* convert_document_with_options without explode_inserts
convert_plain ==
    /\ pc = "start"
    /\ ~options.explode_inserts
    /\ LET top == convert_entities(doc.block_defs, doc.entities)
           blk == convert_blocks(doc.block_defs)
       IN /\ unsupported_entities' = top.unsupported \o blk.unsupported
          /\ dxf' = [entities |-> top.out, blocks |-> blk.blocks,
                     unsupported_entities |-> top.unsupported \o blk.unsupported]
    /\ pc' = "done"
    /\ UNCHANGED <<call_vars, writer_vars, parser_vars, validation, doc, options,
                   frames, expanding_stack>>

Next ==
    \/ convert_start_explode
    \/ explode_block_skip
    \/ explode_block_expand
    \/ explode_entity
    \/ explode_return
    \/ explode_finish
    \/ convert_plain

Spec == Init /\ [][Next]_vars

\* The explode traversal alone, over the block graphs.  The conversion is one
\* sequential call: it keeps running until it returns.
ExplodeInit == Init /\ doc \in GraphDocs

ExplodeNext ==
    \/ convert_start_explode
    \/ explode_block_skip
    \/ explode_block_expand
    \/ explode_entity
    \/ explode_return
    \/ explode_finish

ExplodeFairSpec == ExplodeInit /\ [][ExplodeNext]_vars /\ WF_vars(ExplodeNext)

(***************************************************************************)
(* parser.rs: validate_block_references.                                   *)
(***************************************************************************)
collect_block_ref_numbers(entities, out) ==
    LET blocks == SelectSeq(entities, LAMBDA e : e.kind = "Block")
    IN out \o [k \in DOMAIN blocks |-> blocks[k].def_number]

\* every reference number of the document, in the order the validator visits them
RECURSIVE collect_all_ref_numbers(_, _, _)
collect_all_ref_numbers(block_defs, i, out) ==
    IF i > Len(block_defs) THEN out
    ELSE collect_all_ref_numbers(block_defs, i + 1,
             collect_block_ref_numbers(block_defs[i].entities, out))

\* HashMap<u32, String>: a later definition replaces an earlier one of its number
block_def_name_map(block_defs) ==
    [n \in {block_defs[i].number : i \in DOMAIN block_defs} |->
        LET last == CHOOSE i \in DOMAIN block_defs :
                        /\ block_defs[i].number = n
                        /\ \A j \in DOMAIN block_defs :
                              block_defs[j].number = n => j <= i
        IN block_defs[last].name]

\* resolve_block_name: the first definition of the number
resolve_block_name(def_number, block_defs) ==
    LET hits == {i \in DOMAIN block_defs : block_defs[i].number = def_number}
    IN IF hits = {} THEN None
       ELSE Some(block_defs[CHOOSE i \in hits : \A j \in hits : i <= j].name)

RECURSIVE into_iter_descending(_)
into_iter_descending(set) ==
    IF set = {} THEN <<>>
    ELSE LET hi == CHOOSE x \in set : \A y \in set : y <= x
         IN <<hi>> \o into_iter_descending(set \ {hi})

\* BTreeSet::into_iter: the elements in ascending order
RECURSIVE into_iter(_)
into_iter(set) ==
    IF set = {} THEN <<>>
    ELSE LET lo == CHOOSE x \in set : \A y \in set : x <= y
         IN <<lo>> \o into_iter(set \ {lo})

\* the loop over ref_numbers: [resolved_references, unresolved]
RECURSIVE count_references(_, _, _, _)
count_references(ref_numbers, name_map, resolved_references, unresolved) ==
    IF ref_numbers = <<>>
    THEN [resolved_references |-> resolved_references, unresolved |-> unresolved]
    ELSE IF Head(ref_numbers) \in DOMAIN name_map
         THEN count_references(Tail(ref_numbers), name_map,
                               resolved_references + 1, unresolved)
         ELSE count_references(Tail(ref_numbers), name_map, resolved_references,
                               unresolved \cup {Head(ref_numbers)})

validate_block_references(document) ==
    LET ref_numbers ==
            collect_all_ref_numbers(document.block_defs, 1,
                collect_block_ref_numbers(document.entities, <<>>))
        name_map == block_def_name_map(document.block_defs)
        counted == count_references(ref_numbers, name_map, 0, {})
    IN [total_references |-> Len(ref_numbers),
        resolved_references |-> counted.resolved_references,
        unresolved_def_numbers |-> into_iter(counted.unresolved)]

has_unresolved(self) == self.unresolved_def_numbers # <<>>

\* The validator is a pure function of the document: it is applied once to
\* every document of the two families.
ValidateInit ==
    /\ doc \in GraphDocs \cup KindDocs
    /\ options = [explode_inserts |-> FALSE, max_block_nesting |-> 32]
    /\ ConverterAtStart
    /\ CallIdle
    /\ WriterIdle
    /\ validation = None
    /\ ParserIdle

validate_document ==
    /\ validation = None
    /\ validation' = Some(validate_block_references(doc))
    /\ UNCHANGED <<call_vars, writer_vars, parser_vars, doc, options, pc, frames, expanding_stack,
                   unsupported_entities, dxf>>

ValidateNext == validate_document

ValidateSpec == ValidateInit /\ [][ValidateNext]_vars

(***************************************************************************)
(* The files parse_document is run on, built as the tests of parser.rs     *)
(* build theirs: the bytes from the top-level entity list on (the header   *)
(* has been decoded and has given version).                                *)
(***************************************************************************)
to_le_bytes(n, width) == [k \in 1..width |-> (n \div (256 ^ (k - 1))) % 256]

F64_0 == <<0, 0, 0, 0, 0, 0, 0, 0>>          \* 0.0f64.to_le_bytes()
F64_1 == <<0, 0, 0, 0, 0, 0, 240, 63>>       \* 1.0f64.to_le_bytes()
F64_10 == <<0, 0, 0, 0, 0, 0, 36, 64>>       \* 10.0f64.to_le_bytes()

append_entity_base(ver) ==
    to_le_bytes(0, 4) \o <<1>> \o to_le_bytes(1, 2)
      \o (IF ver >= 351 THEN to_le_bytes(1, 2) ELSE <<>>)
      \o to_le_bytes(0, 2) \o to_le_bytes(0, 2) \o to_le_bytes(0, 2)

class_definition(name) ==
    to_le_bytes(65535, 2) \o to_le_bytes(600, 2) \o to_le_bytes(Len(name), 2) \o name
class_reference(pid) == to_le_bytes(32768 + pid, 2)
NullRecord == to_le_bytes(32768, 2)

LineBytes(ver) == append_entity_base(ver) \o F64_0 \o F64_0 \o F64_10 \o F64_0
ArcBytes(ver) ==
    append_entity_base(ver) \o F64_0 \o F64_0 \o F64_1 \o F64_0 \o F64_1 \o F64_0
      \o F64_1 \o to_le_bytes(0, 4)
PointBytes(ver) == append_entity_base(ver) \o F64_0 \o F64_0 \o to_le_bytes(0, 4)
TextBytes(ver) ==
    append_entity_base(ver) \o F64_0 \o F64_0 \o F64_0 \o F64_0 \o to_le_bytes(0, 4)
      \o F64_1 \o F64_1 \o F64_0 \o F64_0 \o <<0>> \o <<4, 49, 48, 48, 48>>
SolidBytes(ver) ==
    append_entity_base(ver) \o F64_0 \o F64_0 \o F64_0 \o F64_1 \o F64_1 \o F64_0
      \o F64_1 \o F64_1
BlockBytes(ver, n) ==
    append_entity_base(ver) \o F64_0 \o F64_0 \o F64_1 \o F64_1 \o F64_0
      \o to_le_bytes(n, 4)
DimensionBytes(ver) ==
    append_entity_base(ver) \o LineBytes(ver) \o TextBytes(ver)
      \o (IF ver >= 420
          THEN to_le_bytes(0, 2) \o LineBytes(ver) \o LineBytes(ver)
                 \o PointBytes(ver) \o PointBytes(ver) \o PointBytes(ver)
                 \o PointBytes(ver)
          ELSE <<>>)

Versions == {350, 600}

\* top-level entity lists: empty; one insert of definition 1 and one of 2; a
\* line, a null record and a second line by class reference; every kind of
\* entity; a list whose only record names a class never defined
TopOfInserts(ver) ==
    to_le_bytes(2, 2) \o class_definition(Name_CDataBlock) \o BlockBytes(ver, 1)
      \o class_reference(1) \o BlockBytes(ver, 2)
TopOfLines(ver) ==
    to_le_bytes(3, 2) \o class_definition(Name_CDataSen) \o LineBytes(ver)
      \o NullRecord \o class_reference(1) \o LineBytes(ver)
TopOfEveryKind(ver) ==
    to_le_bytes(7, 2)
      \o class_definition(Name_CDataSen) \o LineBytes(ver)
      \o class_definition(Name_CDataEnko) \o ArcBytes(ver)
      \o class_definition(Name_CDataTen) \o PointBytes(ver)
      \o class_definition(Name_CDataMoji) \o TextBytes(ver)
      \o class_definition(Name_CDataSolid) \o SolidBytes(ver)
      \o class_definition(Name_CDataBlock) \o BlockBytes(ver, 1)
      \o class_definition(Name_CDataSunpou) \o DimensionBytes(ver)
TopUndecodable == to_le_bytes(1, 2) \o class_reference(5)
TopLists(ver) == {to_le_bytes(0, 2), TopOfInserts(ver), TopOfLines(ver)}

\* nested entity lists of a block definition: empty, one line, and a list
\* whose only record names a class never defined
NestedEmpty == to_le_bytes(0, 2)
NestedLine(ver) == to_le_bytes(1, 2) \o class_definition(Name_CDataSen) \o LineBytes(ver)
NestedUndecodable == to_le_bytes(1, 2) \o class_reference(5)
NestedLists(ver) == {NestedEmpty, NestedLine(ver), NestedUndecodable}

\* a block definition record; the class is defined by the first record of the
\* section and referenced by the later ones
BlockDefBytes(ver, first, number, nested) ==
    (IF first THEN class_definition(Name_CDataList) ELSE class_reference(1))
      \o append_entity_base(ver) \o to_le_bytes(number, 4) \o to_le_bytes(0, 4)
      \o to_le_bytes(0, 4) \o <<3, 66, 76, 75>> \o nested

\* what a record of the section is: a definition (its number, its nested list)
\* or the null record
RecordKinds(ver) ==
    {[null |-> FALSE, number |-> n, nested |-> l] :
        n \in 1..2, l \in NestedLists(ver)} \cup {[null |-> TRUE]}

RecordBytes(ver, rs) ==
    Flatten([i \in DOMAIN rs |->
        IF rs[i].null THEN NullRecord
        ELSE BlockDefBytes(ver, i = 1, rs[i].number, rs[i].nested)])

\* block sections: the records with their count, with a count one too large,
\* and with a count above the limit of 10,000
BlockSections(ver) ==
    UNION {{to_le_bytes(c, 4) \o RecordBytes(ver, rs) :
               c \in {Len(rs), Len(rs) + 1, 10001}} :
           rs \in SeqsUpTo(RecordKinds(ver), MaxRecords)}

\* a whole file, and every truncation of it
WholeFile(ver) ==
    TopOfInserts(ver) \o to_le_bytes(2, 4)
      \o BlockDefBytes(ver, TRUE, 1, NestedLine(ver))
      \o BlockDefBytes(ver, FALSE, 2, NestedEmpty)
Truncations(ver) ==
    {SubSeq(WholeFile(ver), 1, n) : n \in 0..Len(WholeFile(ver))}

\* a line whose EntityBase names a layer and a layer group, and a file with
\* such a line at the top level and one inside its block definition
LineIn(ver, layer, layer_group) ==
    to_le_bytes(0, 4) \o <<1>> \o to_le_bytes(1, 2)
      \o (IF ver >= 351 THEN to_le_bytes(1, 2) ELSE <<>>)
      \o to_le_bytes(layer, 2) \o to_le_bytes(layer_group, 2) \o to_le_bytes(0, 2)
      \o F64_0 \o F64_0 \o F64_10 \o F64_0
LayeredFile(ver, layer, layer_group) ==
    to_le_bytes(1, 2) \o class_definition(Name_CDataSen) \o LineIn(ver, layer, layer_group)
      \o to_le_bytes(1, 4)
      \o BlockDefBytes(ver, TRUE, 1,
             to_le_bytes(1, 2) \o class_definition(Name_CDataSen)
               \o LineIn(ver, layer_group, layer))
LayeredFiles(ver) ==
    {LayeredFile(ver, lg[1], lg[2]) :
        lg \in {<<15, 15>>, <<3, 0>>, <<16, 0>>, <<65535, 255>>}}

\* files whose lists name a class by an id that another list registered: the
\* nested list of the first definition, of the second definition, and the
\* record of the second definition after a nested list that defines a class
NestedByReference(ver) == to_le_bytes(1, 2) \o class_reference(1) \o LineBytes(ver)
DictionaryFiles(ver) ==
    {TopOfLines(ver) \o to_le_bytes(2, 4)
       \o BlockDefBytes(ver, TRUE, 1, NestedByReference(ver))
       \o BlockDefBytes(ver, FALSE, 2, NestedLine(ver)),
     TopOfLines(ver) \o to_le_bytes(2, 4)
       \o BlockDefBytes(ver, TRUE, 1, NestedLine(ver))
       \o BlockDefBytes(ver, FALSE, 2, NestedByReference(ver)),
     to_le_bytes(0, 2) \o to_le_bytes(1, 4)
       \o BlockDefBytes(ver, TRUE, 1, NestedByReference(ver))}

Files(ver) ==
    {top \o section : top \in TopLists(ver), section \in BlockSections(ver) \cup {<<>>}}
      \cup {TopOfEveryKind(ver), TopUndecodable \o to_le_bytes(0, 4)}
      \cup Truncations(ver)
      \cup LayeredFiles(ver)
      \cup DictionaryFiles(ver)

(***************************************************************************)
(* parser.rs: parse_document, one step per stage and per record of the     *)
(* block definition section.                                               *)
(***************************************************************************)
ParseInit ==
    /\ version \in Versions
    /\ data \in Files(version)
    /\ file = <<>>
    /\ header = None
    /\ entity_list_offset = 0
    /\ parse_pc = "start"
    /\ reader = 0
    /\ section_start = 0
    /\ parsed = NoDocument
    /\ class_map = <<>>
    /\ next_id = 1
    /\ remaining = 0
    /\ result = "none"
    /\ error = None
    /\ doc = NoDocument
    /\ options = [explode_inserts |-> FALSE, max_block_nesting |-> 32]
    /\ ConverterAtStart
    /\ CallIdle
    /\ WriterIdle
    /\ validation = None

converter_idle ==
    UNCHANGED <<doc, options, pc, frames, expanding_stack, unsupported_entities, dxf,
                validation>>

\* let entities = parse_entity_list(&mut reader, header.version)?
parse_top_level_entities ==
    /\ parse_pc = "start"
    /\ LET r == parse_entity_list(data, 0, version)
       IN /\ reader' = r.pos
          /\ IF r.ok
             THEN /\ parsed' = [parsed EXCEPT !.entities = r.value]
                  /\ section_start' = r.pos
                  /\ parse_pc' = "block_section"
                  /\ UNCHANGED <<result, error>>
             ELSE /\ result' = "Err"
                  /\ error' = Some(r.err)
                  /\ parse_pc' = "done"
                  /\ UNCHANGED <<parsed, section_start>>
    /\ UNCHANGED <<file, header, entity_list_offset, data, version, class_map, next_id,
                   remaining>>
    /\ converter_idle
    /\ UNCHANGED <<call_vars, writer_vars>>

count_over_limit_never(count) == FALSE

\* if count > 10_000 { return Vec::new(); }
count_over_limit(count) == count > 10000

\* no byte after the top-level list: block_defs is Vec::new()
parse_block_section_absent ==
    /\ parse_pc = "block_section"
    /\ ~(section_start < Len(data))
    /\ parse_pc' = "return"
    /\ UNCHANGED <<file, header, entity_list_offset, error, data, version, reader, section_start, parsed, class_map, next_id,
                   remaining, result>>
    /\ converter_idle
    /\ UNCHANGED <<call_vars, writer_vars>>

\* parse_block_def_list up to its loop: a new reader on the block data, the count
parse_block_def_count ==
    /\ parse_pc = "block_section"
    /\ section_start < Len(data)
    /\ LET count == read_u32(data, section_start)
       IN /\ reader' = count.pos
          /\ IF ~count.ok \/ count_over_limit(count.value)
             THEN /\ parse_pc' = "return"
                  /\ remaining' = remaining
             ELSE /\ parse_pc' = "block_defs"
                  /\ remaining' = count.value
    /\ class_map' = <<>>
    /\ next_id' = 1
    /\ UNCHANGED <<file, header, entity_list_offset, error, data, version,
                   section_start, parsed, result>>
    /\ converter_idle
    /\ UNCHANGED <<call_vars, writer_vars>>

\* one iteration of the loop of parse_block_def_list
parse_block_def_record ==
    /\ parse_pc = "block_defs"
    /\ remaining > 0
    /\ LET r == parse_block_def_with_tracking(data, reader, version, class_map, next_id)
       IN /\ reader' = r.pos
          /\ IF r.ok
             THEN /\ next_id' = r.value.next_id
                  /\ class_map' = r.value.class_map
                  /\ parsed' = IF r.value.block_def = None THEN parsed
                               ELSE [parsed EXCEPT !.block_defs =
                                        Append(@, r.value.block_def.value)]
                  /\ remaining' = remaining - 1
                  /\ parse_pc' = parse_pc
             ELSE /\ parse_pc' = "return"
                  /\ UNCHANGED <<next_id, class_map, parsed, remaining>>
    /\ UNCHANGED <<file, header, entity_list_offset, error, data, version,
                   section_start, result>>
    /\ converter_idle
    /\ UNCHANGED <<call_vars, writer_vars>>

\* the loop has run count times
parse_block_defs_end ==
    /\ parse_pc = "block_defs"
    /\ remaining = 0
    /\ parse_pc' = "return"
    /\ UNCHANGED <<file, header, entity_list_offset, error, data, version, reader, section_start, parsed, class_map, next_id,
                   remaining, result>>
    /\ converter_idle
    /\ UNCHANGED <<call_vars, writer_vars>>

\* Ok(JwwDocument { header, entities, block_defs })
parse_document_return ==
    /\ parse_pc = "return"
    /\ result' = "Ok"
    /\ parse_pc' = "done"
    /\ UNCHANGED <<file, header, entity_list_offset, error, data, version, reader, section_start, parsed, class_map, next_id,
                   remaining>>
    /\ converter_idle
    /\ UNCHANGED <<call_vars, writer_vars>>

ParseNext ==
    \/ parse_top_level_entities
    \/ parse_block_section_absent
    \/ parse_block_def_count
    \/ parse_block_def_record
    \/ parse_block_defs_end
    \/ parse_document_return

ParseSpec == ParseInit /\ [][ParseNext]_vars

(***************************************************************************)
(* parser.rs: parse_document from its first line, on whole files: the      *)
(* header, the search for the entity list, then the stages above on the    *)
(* bytes from the entity list on.                                          *)
(***************************************************************************)
Zeros(n) == [k \in 1..n |-> 0]

overlay(base, at, patch) ==
    [j \in 1..Len(base) |->
        IF j - 1 >= at /\ j - 1 < at + Len(patch) THEN patch[j - at] ELSE base[j]]

\* the header as the tests write it: signature, version, memo, paper size,
\* write layer group and 16 layer groups of 16 layers
HeaderWithMemo(ver, memo) ==
    JWW_SIGNATURE \o to_le_bytes(ver, 4) \o memo \o to_le_bytes(0, 4)
      \o to_le_bytes(0, 4)
      \o Flatten([g \in 1..16 |->
            to_le_bytes(0, 4) \o to_le_bytes(0, 4) \o F64_1 \o to_le_bytes(0, 4)
              \o Zeros(16 * 8)])
HeaderBytes(ver) == HeaderWithMemo(ver, <<0>>)

\* the bytes a class definition record of schema ver begins with
AnchorBytes(ver) ==
    to_le_bytes(65535, 2) \o to_le_bytes(ver % 65536, 2)
      \o to_le_bytes(Len(Name_CDataSen), 2) \o Name_CDataSen

\* headers: as the tests write them, and with a memo of three letters and
\* layer states that read as the start of a class definition, at offset 96
\* and at offset 100
Memo == <<3, 74, 87, 87>>
Headers(ver) ==
    {HeaderBytes(ver), overlay(HeaderWithMemo(ver, Memo), 96, AnchorBytes(ver)),
     overlay(HeaderWithMemo(ver, Memo), 100, AnchorBytes(ver))}

\* the optional names: none; all blank; and names of which one layer name
\* and one group name are given, one is a NUL byte and the others are blank
NamesSkipped == Zeros((14 + 5 + 1 + 1) * 4 + 16 + 8 + 4 + 4 + 8 + 16 + 16)
NamesBlank == NamesSkipped \o Zeros(16 * 16 + 16)
NamesGiven ==
    NamesSkipped \o <<2, 65, 49>> \o <<1, 0>> \o Zeros(16 * 16 - 2)
      \o <<3, 71, 82, 49>> \o Zeros(15)
NamesCutShort == SubSeq(NamesGiven, 1, Len(NamesSkipped) + 100)
NameSections == {<<>>, NamesBlank, NamesGiven}

\* what follows: nothing; a list cut 0, 6 and 7 bytes after its first class
\* definition; whole lists with and without block definitions; lists whose
\* record names no class that can be decoded
Bodies ==
    {<<>>, TopOfLines(600), TopOfEveryKind(600), WholeFile(600),
     TopOfLines(600) \o to_le_bytes(10001, 4),
     TopOfInserts(600) \o to_le_bytes(2, 4)
        \o BlockDefBytes(600, TRUE, 1, NestedLine(600)),
     to_le_bytes(1, 2) \o class_definition(Name_CDataXXXX) \o LineBytes(600),
     to_le_bytes(2, 2) \o class_definition(Name_CDataSen) \o LineBytes(600)
        \o class_reference(2),
     to_le_bytes(2, 2) \o class_definition(Name_CDataSen) \o LineBytes(600)
        \o to_le_bytes(0, 2),
     to_le_bytes(2, 2) \o class_definition(Name_CDataSen) \o LineBytes(600)
        \o to_le_bytes(3, 2)}
      \cup {SubSeq(TopOfLines(600), 1, 16 + k) : k \in {0, 6, 7}}

HeaderVersions == {299, 600}

\* files no header can be decoded from
BrokenFiles ==
    {<<>>, JWW_SIGNATURE, SubSeq(HeaderBytes(600), 1, 1000),
     overlay(HeaderBytes(600), 0, <<74, 119, 119, 68, 97, 116, 97, 32>>)}

DocumentFiles ==
    {h \o n \o b : h \in UNION {Headers(v) : v \in HeaderVersions},
                   n \in NameSections, b \in Bodies}
      \cup {HeaderBytes(600) \o NamesCutShort}
      \cup BrokenFiles

DocumentInit ==
    /\ file \in DocumentFiles
    /\ header = None
    /\ entity_list_offset = 0
    /\ data = <<>>
    /\ version = 0
    /\ parse_pc = "header"
    /\ reader = 0
    /\ section_start = 0
    /\ parsed = NoDocument
    /\ class_map = <<>>
    /\ next_id = 1
    /\ remaining = 0
    /\ result = "none"
    /\ error = None
    /\ doc = NoDocument
    /\ options = [explode_inserts |-> FALSE, max_block_nesting |-> 32]
    /\ ConverterAtStart
    /\ CallIdle
    /\ WriterIdle
    /\ validation = None

\* let header = parse_header(data)?
parse_document_header ==
    /\ parse_pc = "header"
    /\ LET h == parse_header(file)
       IN IF h.ok
          THEN /\ header' = Some(h.value)
               /\ version' = h.value.version
               /\ parse_pc' = "locate"
               /\ UNCHANGED <<result, error>>
          ELSE /\ result' = "Err"
               /\ error' = Some(h.err)
               /\ parse_pc' = "done"
               /\ UNCHANGED <<header, version>>
    /\ UNCHANGED <<file, entity_list_offset, data, reader, section_start, parsed,
                   class_map, next_id, remaining>>
    /\ converter_idle
    /\ UNCHANGED <<call_vars, writer_vars>>

\* find_entity_list_offset(data, header.version).ok_or(EntityListNotFound)?
\* and Reader::new(&data[entity_list_offset..])
locate_entity_list ==
    /\ parse_pc = "locate"
    /\ LET found == find_entity_list_offset(file, version)
       IN IF found = None
          THEN /\ result' = "Err"
               /\ error' = Some(EntityListNotFound)
               /\ parse_pc' = "done"
               /\ UNCHANGED <<entity_list_offset, data>>
          ELSE /\ entity_list_offset' = found.value
               /\ data' = SubSeq(file, found.value + 1, Len(file))
               /\ parse_pc' = "start"
               /\ UNCHANGED <<result, error>>
    /\ UNCHANGED <<file, header, version, reader, section_start, parsed, class_map,
                   next_id, remaining>>
    /\ converter_idle
    /\ UNCHANGED <<call_vars, writer_vars>>

\* parse_entity_list up to its loop: the count, an empty class map, next_pid 1
parse_entity_list_count ==
    /\ parse_pc = "start"
    /\ LET count == read_u16(data, 0)
       IN /\ reader' = count.pos
          /\ IF count.ok
             THEN /\ remaining' = count.value
                  /\ parse_pc' = "entities"
                  /\ UNCHANGED <<result, error>>
             ELSE /\ result' = "Err"
                  /\ error' = Some(count.err)
                  /\ parse_pc' = "done"
                  /\ UNCHANGED remaining
    /\ class_map' = <<>>
    /\ next_id' = 1
    /\ UNCHANGED <<file, header, entity_list_offset, data, version, section_start,
                   parsed>>
    /\ converter_idle
    /\ UNCHANGED <<call_vars, writer_vars>>

\* one iteration of the loop of parse_entity_list; an error is returned by
\* parse_document and the entities decoded so far are dropped
parse_entity_list_record ==
    /\ parse_pc = "entities"
    /\ remaining > 0
    /\ LET r == parse_entity_with_pid_tracking(data, reader, version, class_map, next_id)
       IN /\ reader' = r.pos
          /\ IF r.ok
             THEN /\ next_id' = r.value.next_pid
                  /\ class_map' = r.value.pid_to_class_name
                  /\ parsed' = IF r.value.entity = None THEN parsed
                               ELSE [parsed EXCEPT !.entities =
                                        Append(@, r.value.entity.value)]
                  /\ remaining' = remaining - 1
                  /\ parse_pc' = parse_pc
                  /\ UNCHANGED <<result, error>>
             ELSE /\ result' = "Err"
                  /\ error' = Some(r.err)
                  /\ parse_pc' = "done"
                  /\ parsed' = NoDocument
                  /\ UNCHANGED <<next_id, class_map, remaining>>
    /\ UNCHANGED <<file, header, entity_list_offset, data, version, section_start>>
    /\ converter_idle
    /\ UNCHANGED <<call_vars, writer_vars>>

\* Ok(entities), and block_data_start = entity_list_offset + reader.bytes_read()
parse_entity_list_end ==
    /\ parse_pc = "entities"
    /\ remaining = 0
    /\ section_start' = reader
    /\ parse_pc' = "block_section"
    /\ UNCHANGED <<file, header, entity_list_offset, error, data, version, reader,
                   parsed, class_map, next_id, remaining, result>>
    /\ converter_idle
    /\ UNCHANGED <<call_vars, writer_vars>>

DocumentNext ==
    \/ parse_document_header
    \/ locate_entity_list
    \/ parse_entity_list_count
    \/ parse_entity_list_record
    \/ parse_entity_list_end
    \/ parse_block_section_absent
    \/ parse_block_def_count
    \/ parse_block_def_record
    \/ parse_block_defs_end
    \/ parse_document_return

DocumentSpec == DocumentInit /\ [][DocumentNext]_vars

(***************************************************************************)
(* reader.rs: a Reader over a buffer, its methods called one after the     *)
(* other in any order.  call records the method, its len argument and the  *)
(* position it was called at; returned is the Result, or the panic.        *)
(***************************************************************************)
\* buffers: CStrings of each tier of length prefix, whole, with a payload of
\* length 0, cut inside the prefix and cut inside the payload; a payload that
\* ends with NUL; a u32 length above isize::MAX; the longest payload of the
\* one-byte prefix; plain bytes
ReaderBuffers ==
    {<<>>, <<0>>, <<1, 0>>, <<2, 65, 66>>, <<2, 65>>, <<2, 65, 0>>,
     <<255, 0, 0>>, <<255, 2>>, <<255, 2, 0, 65>>, <<255, 2, 0, 65, 66, 7>>,
     <<255, 255, 255, 0, 0, 0, 0>>, <<255, 255, 255, 2, 0, 0>>,
     <<255, 255, 255, 2, 0, 0, 0, 65, 66>>, <<255, 255, 255, 0, 0, 0, 64, 65>>,
     <<254>> \o [k \in 1..254 |-> 65],
     <<1, 2, 3, 4, 5, 6, 7, 8, 9>>}
SkipLens == {0, 1, 3, UsizeMax}
ByteLens == {0, 2, IsizeMax, IsizeMax + 1, UsizeMax}

ReaderInit ==
    /\ data \in ReaderBuffers
    /\ reader = 0
    /\ CallIdle
    /\ WriterIdle
    /\ file = <<>>
    /\ header = None
    /\ entity_list_offset = 0
    /\ version = 0
    /\ parse_pc = "idle"
    /\ section_start = 0
    /\ parsed = NoDocument
    /\ class_map = <<>>
    /\ next_id = 1
    /\ remaining = 0
    /\ result = "none"
    /\ error = None
    /\ doc = NoDocument
    /\ options = [explode_inserts |-> FALSE, max_block_nesting |-> 32]
    /\ ConverterAtStart
    /\ validation = None

Panicked == returned # None /\ ~returned.ok /\ returned.err.kind = "panic"

\* a method is called at the reader's position and returns r
reader_call(name, len, r) ==
    /\ ~Panicked
    /\ call' = Some([name |-> name, len |-> len, at |-> reader])
    /\ returned' = r
    /\ reader' = r.pos
    /\ UNCHANGED <<writer_vars, file, header, entity_list_offset, data, version, parse_pc,
                   section_start, parsed, class_map, next_id, remaining, result, error>>
    /\ converter_idle

reader_skip == \E len \in SkipLens : reader_call("skip", len, skip(data, reader, len))
reader_read_u8 == reader_call("read_u8", 1, read_u8(data, reader))
reader_read_u16 == reader_call("read_u16", 2, read_u16(data, reader))
reader_read_u32 == reader_call("read_u32", 4, read_u32(data, reader))
reader_read_f64 == reader_call("read_f64", 8, read_f64(data, reader))
reader_read_bytes ==
    \E len \in ByteLens : reader_call("read_bytes", len, read_bytes(data, reader, len))
reader_read_cstring == reader_call("read_cstring", 0, read_cstring(data, reader))

ReaderNext ==
    \/ reader_skip
    \/ reader_read_u8
    \/ reader_read_u16
    \/ reader_read_u32
    \/ reader_read_f64
    \/ reader_read_bytes
    \/ reader_read_cstring

ReaderSpec == ReaderInit /\ [][ReaderNext]_vars

(***************************************************************************)
(* parser.rs: parse_entity_base on a Reader that stands somewhere in a     *)
(* buffer, called once or several times in a row (as parse_dimension       *)
(* does for its own base and the bases of its line and text).              *)
(***************************************************************************)
\* the buffer of n bytes 1, 2, ..., n
Counting(n) == [k \in 1..n |-> k]
BaseBuffers == {Counting(n) : n \in {0, 5, 12, 13, 14, 15, 16, 17, 18, 19, 30, 34}}
BaseVersions == {0, 350, 351, 352, 600}
BaseStarts == {0, 1, 2}

EntityBaseInit ==
    /\ data \in BaseBuffers
    /\ version \in BaseVersions
    /\ reader \in {at \in BaseStarts : at <= Len(data)}
    /\ CallIdle
    /\ WriterIdle
    /\ file = <<>>
    /\ header = None
    /\ entity_list_offset = 0
    /\ parse_pc = "idle"
    /\ section_start = 0
    /\ parsed = NoDocument
    /\ class_map = <<>>
    /\ next_id = 1
    /\ remaining = 0
    /\ result = "none"
    /\ error = None
    /\ doc = NoDocument
    /\ options = [explode_inserts |-> FALSE, max_block_nesting |-> 32]
    /\ ConverterAtStart
    /\ validation = None

entity_base_call ==
    reader_call("parse_entity_base", 0, parse_entity_base(data, reader, version))

EntityBaseNext == entity_base_call

EntityBaseSpec == EntityBaseInit /\ [][EntityBaseNext]_vars

(***************************************************************************)
(* dxf.rs: escape_unicode.  A string is the sequence of its code points.   *)
(***************************************************************************)
is_ascii(ch) == ch <= 127
is_ascii_control(ch) == ch <= 31 \/ ch = 127

\* format!("{:04X}", n): the uppercase hexadecimal digits of n, with zeros in
\* front up to a width of four
RECURSIVE zero_padded(_, _)
zero_padded(digits, width) ==
    IF Len(digits) >= width THEN digits ELSE zero_padded(<<48>> \o digits, width)
upper_hex_04(n) == zero_padded(upper_hex(n), 4)

escape_char(ch) ==
    IF ch = 13 THEN <<>>
    ELSE IF ch = 10 THEN <<92, 80>>
    ELSE IF ch = 92 THEN <<92, 92>>
    ELSE IF is_ascii(ch) /\ ~is_ascii_control(ch) THEN <<ch>>
    ELSE <<92, 85, 43>> \o upper_hex_04(ch)

escape_unicode(value) == Flatten([k \in DOMAIN value |-> escape_char(value[k])])

\* the code points texts are made of: NUL, tab, LF, CR, space, "A", "\", "~",
\* DEL, U+0080, U+56F3, U+9762, U+FFFF, U+10000, U+1F600 and U+10FFFF
CodePoints ==
    {0, 9, 10, 13, 32, 65, 92, 126, 127, 128, 22259, 38754, 65535, 65536, 128512,
     1114111}
MaxText == 2
Texts == SeqsUpTo(CodePoints, MaxText)

EscapeInit ==
    /\ call \in {Some([name |-> "escape_unicode", value |-> t]) : t \in Texts}
    /\ returned = None
    /\ WriterIdle
    /\ ParserIdle
    /\ doc = NoDocument
    /\ options = [explode_inserts |-> FALSE, max_block_nesting |-> 32]
    /\ ConverterAtStart
    /\ validation = None

escape_unicode_call ==
    /\ call # None
    /\ call.value.name = "escape_unicode"
    /\ returned = None
    /\ returned' = Some(escape_unicode(call.value.value))
    /\ UNCHANGED <<call, writer_vars, parser_vars>>
    /\ converter_idle

EscapeNext == escape_unicode_call

EscapeSpec == EscapeInit /\ [][EscapeNext]_vars

(***************************************************************************)
(* dxf.rs: AsciiDxfWriter.  A String of the document is the sequence of    *)
(* its code points; out is kept as the lines of the text written so far:   *)
(* "{code:>3}\n{value}\n" adds the line of the code and the lines of the   *)
(* value, which are several when the value holds line feeds.  An f64 is    *)
(* counted in tenths.                                                      *)
(***************************************************************************)
\* the printable ASCII characters, from the space (32) to the tilde (126); a
\* string of TLA+ cannot hold the grave accent (96), which no String of the
\* documents below holds, and the apostrophe stands in its place
Chr ==
    <<
     " ", "!", "\"", "#", "$", "%", "&", "'", "(", ")", "*", "+",
     ",", "-", ".", "/", "0", "1", "2", "3", "4", "5", "6", "7",
     "8", "9", ":", ";", "<", "=", ">", "?", "@", "A", "B", "C",
     "D", "E", "F", "G", "H", "I", "J", "K", "L", "M", "N", "O",
     "P", "Q", "R", "S", "T", "U", "V", "W", "X", "Y", "Z", "[",
     "\\", "]", "^", "_", "'", "a", "b", "c", "d", "e", "f", "g",
     "h", "i", "j", "k", "l", "m", "n", "o", "p", "q", "r", "s",
     "t", "u", "v", "w", "x", "y", "z", "{", "|", "}", "~">>

RECURSIVE text(_)
text(str) == IF str = <<>> THEN "" ELSE Chr[Head(str) - 31] \o text(Tail(str))

\* the lines a value takes in the text
RECURSIVE lines_of(_)
lines_of(str) ==
    IF \A k \in DOMAIN str : str[k] # 10 THEN <<text(str)>>
    ELSE LET lf == CHOOSE k \in DOMAIN str :
                       str[k] = 10 /\ \A j \in 1..(k - 1) : str[j] # 10
         IN <<text(SubSeq(str, 1, lf - 1))>> \o lines_of(SubSeq(str, lf + 1, Len(str)))

\* {code:>3}
code_field(code) ==
    LET digits == ToString(code)
    IN IF Len(digits) >= 3 THEN digits
       ELSE IF Len(digits) = 2 THEN " " \o digits
       ELSE "  " \o digits

\* {value:.12} of an f64 counted in tenths
fixed_12(tenths) ==
    (IF tenths < 0 THEN "-" ELSE "") \o ToString(Abs(tenths) \div 10) \o "."
      \o ToString(Abs(tenths) % 10) \o "00000000000"

\* group_str with a String of the document, and with a literal
group_str(code, value) == <<code_field(code)>> \o lines_of(value)
group_lit(code, literal) == <<code_field(code), literal>>
group_i32(code, value) == <<code_field(code), ToString(value)>>
group_f64(code, value) == <<code_field(code), fixed_12(value)>>

\* the handle alloc_handle returns when next_handle is nh
alloc_handle(nh) == text(upper_hex(nh))
write_handle(nh) == group_lit(5, alloc_handle(nh))

write_section_start(name) == group_lit(0, "SECTION") \o group_lit(2, name)
write_section_end == group_lit(0, "ENDSEC")

\* what a part of the writer adds: the lines, and next_handle afterwards
Written(text_lines, nh) == [out |-> text_lines, next_handle |-> nh]

\* names the writer holds as Strings
Model_Space == <<42, 77, 111, 100, 101, 108, 95, 83, 112, 97, 99, 101>>      \* "*Model_Space"
Paper_Space == <<42, 80, 97, 112, 101, 114, 95, 83, 112, 97, 99, 101>>      \* "*Paper_Space"
BYLAYER == <<66, 89, 76, 65, 89, 69, 82>>                                  \* "BYLAYER"
BYBLOCK == <<66, 89, 66, 76, 79, 67, 75>>                                  \* "BYBLOCK"
CONTINUOUS == <<67, 79, 78, 84, 73, 78, 85, 79, 85, 83>>                \* "CONTINUOUS"
DASHED == <<68, 65, 83, 72, 69, 68>>                                       \* "DASHED"
DASHED2 == <<68, 65, 83, 72, 69, 68, 50>>                                  \* "DASHED2"
DASHDOT == <<68, 65, 83, 72, 68, 79, 84>>                                  \* "DASHDOT"
DOT == <<68, 79, 84>>                                                  \* "DOT"
STANDARD == <<83, 84, 65, 78, 68, 65, 82, 68>>                            \* "STANDARD"

write_header ==
    write_section_start("HEADER")
      \o group_lit(9, "$ACADVER") \o group_lit(1, "AC1015")
      \o group_lit(9, "$DWGCODEPAGE") \o group_lit(3, "ANSI_1252")
      \o group_lit(9, "$MEASUREMENT") \o group_i32(70, 1)
      \o group_lit(9, "$TEXTSTYLE") \o group_lit(7, "STANDARD")
      \o group_lit(9, "$CLAYER") \o group_lit(8, "0")
      \o group_lit(9, "$CELTYPE") \o group_lit(6, "BYLAYER")
      \o group_lit(9, "$CECOLOR") \o group_i32(62, 256)
      \o write_section_end

\* the order of String, which BTreeSet and BTreeMap iterate in
RECURSIVE string_less(_, _)
string_less(a, b1) ==
    IF b1 = <<>> THEN FALSE
    ELSE IF a = <<>> THEN TRUE
    ELSE IF Head(a) # Head(b1) THEN Head(a) < Head(b1)
    ELSE string_less(Tail(a), Tail(b1))

RECURSIVE in_order(_)
in_order(strings) ==
    IF strings = {} THEN <<>>
    ELSE LET least == CHOOSE a \in strings :
                          \A b1 \in strings : a = b1 \/ string_less(a, b1)
         IN <<least>> \o in_order(strings \ {least})

entity_line_type(entity) == entity.line_type

collect_line_types(d) ==
    {d.layers[k].line_type : k \in DOMAIN d.layers}
      \cup {entity_line_type(d.entities[k]) : k \in DOMAIN d.entities}
      \cup UNION {{entity_line_type(d.blocks[b1].entities[k]) :
                      k \in DOMAIN d.blocks[b1].entities} : b1 \in DOMAIN d.blocks}

\* the description and the pattern (in tenths) of a line type
ltype_pattern(name) ==
    CASE name = CONTINUOUS -> [description |-> "Solid line", pattern |-> <<>>]
      [] name = DASHED -> [description |-> "Dashed line", pattern |-> <<6, -3>>]
      [] name = DASHED2 -> [description |-> "Dashed line x2", pattern |-> <<12, -6>>]
      [] name = DASHDOT -> [description |-> "Dash dot", pattern |-> <<6, -2, 1, -2>>]
      [] name = DOT -> [description |-> "Dotted line", pattern |-> <<1, -1>>]
      [] OTHER -> [description |-> "", pattern |-> <<>>]

RECURSIVE sum_abs(_)
sum_abs(pattern) ==
    IF pattern = <<>> THEN 0 ELSE Abs(Head(pattern)) + sum_abs(Tail(pattern))

write_ltype(name, nh) ==
    LET known == ltype_pattern(name)
    IN group_lit(0, "LTYPE") \o write_handle(nh) \o group_str(2, name)
         \o group_i32(70, 0) \o group_lit(3, known.description) \o group_i32(72, 65)
         \o group_i32(73, Len(known.pattern)) \o group_f64(40, sum_abs(known.pattern))
         \o Flatten([k \in DOMAIN known.pattern |-> group_f64(49, known.pattern[k])])

write_ltype_table(d, nh) ==
    LET line_types == in_order(collect_line_types(d) \cup {BYLAYER, BYBLOCK, CONTINUOUS})
    IN Written(group_lit(0, "TABLE") \o group_lit(2, "LTYPE") \o write_handle(nh)
                 \o group_i32(70, Len(line_types))
                 \o Flatten([k \in DOMAIN line_types |->
                                write_ltype(line_types[k], nh + k)])
                 \o group_lit(0, "ENDTAB"),
               nh + 1 + Len(line_types))

\* layers.entry(name).or_insert_with(..): of the layers of one name the first
layer_named(d, name) ==
    d.layers[CHOOSE k \in DOMAIN d.layers :
                 d.layers[k].name = name /\ \A j \in 1..(k - 1) : d.layers[j].name # name]

write_layer(layer, nh) ==
    group_lit(0, "LAYER") \o write_handle(nh) \o group_str(2, escape_unicode(layer.name))
      \o group_i32(70, (IF layer.frozen THEN 1 ELSE 0) + (IF layer.locked THEN 4 ELSE 0))
      \o group_i32(62, layer.color) \o group_str(6, layer.line_type)

write_layer_table(d, nh) ==
    LET names == in_order({d.layers[k].name : k \in DOMAIN d.layers})
    IN Written(group_lit(0, "TABLE") \o group_lit(2, "LAYER") \o write_handle(nh)
                 \o group_i32(70, Len(names) + 1)
                 \o group_lit(0, "LAYER") \o write_handle(nh + 1) \o group_lit(2, "0")
                 \o group_i32(70, 0) \o group_i32(62, 7) \o group_lit(6, "CONTINUOUS")
                 \o Flatten([k \in DOMAIN names |->
                                write_layer(layer_named(d, names[k]), nh + 1 + k)])
                 \o group_lit(0, "ENDTAB"),
               nh + 2 + Len(names))

write_style_table(nh) ==
    Written(group_lit(0, "TABLE") \o group_lit(2, "STYLE") \o write_handle(nh)
              \o group_i32(70, 1)
              \o group_lit(0, "STYLE") \o write_handle(nh + 1) \o group_lit(2, "STANDARD")
              \o group_i32(70, 0) \o group_f64(40, 0) \o group_f64(41, 10)
              \o group_f64(50, 0) \o group_i32(71, 0) \o group_f64(42, 25)
              \o group_lit(3, "txt") \o group_lit(4, "")
              \o group_lit(0, "ENDTAB"),
            nh + 2)

write_block_record(name, handles) ==
    group_lit(0, "BLOCK_RECORD") \o group_lit(5, handles[name]) \o group_lit(330, "0")
      \o group_lit(100, "AcDbSymbolTableRecord") \o group_lit(100, "AcDbBlockTableRecord")
      \o group_str(2, escape_unicode(name))

write_block_record_table(order, handles, nh) ==
    Written(group_lit(0, "TABLE") \o group_lit(2, "BLOCK_RECORD") \o write_handle(nh)
              \o group_i32(70, Len(order))
              \o Flatten([k \in DOMAIN order |-> write_block_record(order[k], handles)])
              \o group_lit(0, "ENDTAB"),
            nh + 1)

write_tables(d, order, handles, nh) ==
    LET ltypes == write_ltype_table(d, nh)
        layers == write_layer_table(d, ltypes.next_handle)
        styles == write_style_table(layers.next_handle)
        records == write_block_record_table(order, handles, styles.next_handle)
    IN Written(write_section_start("TABLES") \o ltypes.out \o layers.out \o styles.out
                 \o records.out \o write_section_end,
               records.next_handle)

\* if let Some(owner) = owner_handle { self.group_str(330, owner) }
owner_group(owner_handle) ==
    IF owner_handle = None THEN <<>> ELSE group_lit(330, owner_handle.value)

entity_header(type_name, layer, color, line_type, owner_handle, nh) ==
    group_lit(0, type_name) \o write_handle(nh) \o owner_group(owner_handle)
      \o group_str(8, escape_unicode(layer)) \o group_i32(62, color)
      \o group_str(6, line_type)

write_entity_fields(v) ==
    CASE v.type = "LINE" ->
            group_f64(10, v.x1) \o group_f64(20, v.y1) \o group_f64(30, 0)
              \o group_f64(11, v.x2) \o group_f64(21, v.y2) \o group_f64(31, 0)
      [] v.type = "CIRCLE" ->
            group_f64(10, v.center_x) \o group_f64(20, v.center_y) \o group_f64(30, 0)
              \o group_f64(40, v.radius)
      [] v.type = "ARC" ->
            group_f64(10, v.center_x) \o group_f64(20, v.center_y) \o group_f64(30, 0)
              \o group_f64(40, v.radius) \o group_f64(50, v.start_angle)
              \o group_f64(51, v.end_angle)
      [] v.type = "ELLIPSE" ->
            group_f64(10, v.center_x) \o group_f64(20, v.center_y) \o group_f64(30, 0)
              \o group_f64(11, v.major_axis_x) \o group_f64(21, v.major_axis_y)
              \o group_f64(31, 0) \o group_f64(40, v.minor_ratio)
              \o group_f64(41, v.start_param) \o group_f64(42, v.end_param)
      [] v.type = "POINT" ->
            group_f64(10, v.x) \o group_f64(20, v.y) \o group_f64(30, 0)
      [] v.type = "TEXT" ->
            group_f64(10, v.x) \o group_f64(20, v.y) \o group_f64(30, 0)
              \o group_f64(40, v.height) \o group_str(1, escape_unicode(v.content))
              \o group_f64(50, v.rotation) \o group_str(7, escape_unicode(v.style))
      [] v.type = "SOLID" ->
            group_f64(10, v.x1) \o group_f64(20, v.y1) \o group_f64(30, 0)
              \o group_f64(11, v.x2) \o group_f64(21, v.y2) \o group_f64(31, 0)
              \o group_f64(12, v.x3) \o group_f64(22, v.y3) \o group_f64(32, 0)
              \o group_f64(13, v.x4) \o group_f64(23, v.y4) \o group_f64(33, 0)
      [] v.type = "INSERT" ->
            group_str(2, escape_unicode(v.block_name))
              \o group_f64(10, v.x) \o group_f64(20, v.y) \o group_f64(30, 0)
              \o group_f64(41, v.scale_x) \o group_f64(42, v.scale_y)
              \o group_f64(43, 10) \o group_f64(50, v.rotation)

write_entity(v, owner_handle, nh) ==
    entity_header(v.type, v.layer, v.color, v.line_type, owner_handle, nh)
      \o write_entity_fields(v)

\* a run of write_entity: one handle each
write_entity_run(entities, owner_handle, nh) ==
    Flatten([k \in DOMAIN entities |-> write_entity(entities[k], owner_handle, nh + k - 1)])

write_block_definition(name, base_x, base_y, entities, owner_handle, nh) ==
    LET block_name == escape_unicode(name)
    IN Written(group_lit(0, "BLOCK") \o write_handle(nh) \o owner_group(owner_handle)
                 \o group_lit(100, "AcDbEntity") \o group_lit(8, "0")
                 \o group_lit(100, "AcDbBlockBegin") \o group_str(2, block_name)
                 \o group_i32(70, 0) \o group_f64(10, base_x) \o group_f64(20, base_y)
                 \o group_f64(30, 0) \o group_str(3, block_name) \o group_lit(1, "")
                 \o write_entity_run(entities, owner_handle, nh + 1)
                 \o group_lit(0, "ENDBLK") \o write_handle(nh + 1 + Len(entities))
                 \o owner_group(owner_handle)
                 \o group_lit(100, "AcDbEntity") \o group_lit(8, "0")
                 \o group_lit(100, "AcDbBlockEnd"),
               nh + 2 + Len(entities))

block_record_handle(handles, name) ==
    IF name \in DOMAIN handles THEN Some(handles[name]) ELSE None

\* the loop of write_blocks over doc.blocks
RECURSIVE write_user_blocks(_, _, _)
write_user_blocks(blocks, handles, nh) ==
    IF blocks = <<>> THEN Written(<<>>, nh)
    ELSE LET block == Head(blocks)
             first == write_block_definition(block.name, block.base_x, block.base_y,
                          block.entities, block_record_handle(handles, block.name), nh)
             others == write_user_blocks(Tail(blocks), handles, first.next_handle)
         IN Written(first.out \o others.out, others.next_handle)

write_blocks(d, handles, nh) ==
    LET model == write_block_definition(Model_Space, 0, 0, <<>>,
                     block_record_handle(handles, Model_Space), nh)
        paper == write_block_definition(Paper_Space, 0, 0, <<>>,
                     block_record_handle(handles, Paper_Space), model.next_handle)
        user == write_user_blocks(d.blocks, handles, paper.next_handle)
    IN Written(write_section_start("BLOCKS") \o model.out \o paper.out \o user.out
                 \o write_section_end,
               user.next_handle)

write_entities(d, handles, nh) ==
    Written(write_section_start("ENTITIES")
              \o write_entity_run(d.entities, block_record_handle(handles, Model_Space), nh)
              \o write_section_end,
            nh + Len(d.entities))

write_objects(nh) ==
    Written(write_section_start("OBJECTS") \o group_lit(0, "DICTIONARY") \o write_handle(nh)
              \o group_lit(330, "0") \o group_lit(100, "AcDbDictionary")
              \o group_i32(281, 1) \o write_section_end,
            nh + 1)

\* register_block_record: a name already registered takes no handle.  The
\* value is [order, handles, next_handle].
register_block_record(w, name) ==
    IF name \in DOMAIN w.handles THEN w
    ELSE [order |-> Append(w.order, name),
          handles |-> insert(w.handles, name, alloc_handle(w.next_handle)),
          next_handle |-> w.next_handle + 1]

RECURSIVE register_block_records(_, _)
register_block_records(w, names) ==
    IF names = <<>> THEN w
    ELSE register_block_records(register_block_record(w, Head(names)), Tail(names))

ensure_block_record_table(w, d) ==
    IF w.order # <<>> THEN w
    ELSE register_block_records(w,
             <<Model_Space, Paper_Space>> \o [k \in DOMAIN d.blocks |-> d.blocks[k].name])

(***************************************************************************)
(* The documents document_to_string is run on.  DxfDocument and the        *)
(* entities are public structs with public fields (dxf.rs:11-131), so a    *)
(* caller builds them with any String in any field.                        *)
(***************************************************************************)
\* v with its layer, color and line_type
styled(v, layer, color, line_type) ==
    v @@ [layer |-> layer, color |-> color, line_type |-> line_type]

DxfLayer(name, color, line_type, frozen, locked) ==
    [name |-> name, color |-> color, line_type |-> line_type, frozen |-> frozen,
     locked |-> locked]

Name_L1 == <<76, 49>>         \* "L1"
Name_A == <<65>>              \* "A"
Name_B == <<66>>              \* "B"
Name_0 == <<48>>              \* "0"
Content_Hi == <<72, 105, 10>>   \* "Hi" and a line feed

\* "CONTINUOUS", a line feed, "  5", a line feed, "1"
LineTypeWithHandle ==
    <<67, 79, 78, 84, 73, 78, 85, 79, 85, 83, 10, 32, 32, 53, 10, 49>>

\* "CONTINUOUS" and then the lines "  0", "ENDSEC", "  0", "SECTION", "  2", "HEADER"
LineTypeWithSection ==
    <<67, 79, 78, 84, 73, 78, 85, 79, 85, 83, 10, 32, 32, 48, 10, 69, 78,
      68, 83, 69, 67, 10, 32, 32, 48, 10, 83, 69, 67, 84, 73, 79, 78, 10,
      32, 32, 50, 10, 72, 69, 65, 68, 69, 82>>

PlainLine == styled(DxfLine(0, 0, 10, 25), Name_0, 7, CONTINUOUS)
LayerLine == styled(DxfLine(-5, 0, 10, 0), Name_L1, 256, DASHED)
TextHi ==
    styled([DxfText(10, 20, 25, 0, Content_Hi) EXCEPT !.style = STANDARD],
           Name_L1, 256, BYLAYER)
InsertA == styled(DxfInsert(Name_A, 10, 10, 10, 10, 0), Name_0, 256, BYLAYER)

AllKinds ==
    <<PlainLine,
      styled(DxfCircle(0, 0, 10), Name_0, 1, DASHDOT),
      styled(DxfArc(0, 0, 10, 0, 900), Name_0, 2, DOT),
      styled(DxfEllipse(0, 0, 20, 0, 5, 0, 31), Name_0, 3, DASHED2),
      styled(DxfPoint(10, 10), Name_0, 4, BYBLOCK),
      TextHi,
      styled(DxfSolid(0, 0, 10, 0, 10, 10, 0, 10), Name_L1, 5, CONTINUOUS),
      InsertA>>

WriterEntities ==
    {<<>>,
     <<PlainLine>>,
     <<LayerLine, TextHi>>,
     <<InsertA, InsertA>>,
     AllKinds,
     <<styled(DxfLine(0, 0, 10, 0), Name_0, 7, LineTypeWithHandle)>>,
     <<PlainLine, styled(DxfPoint(0, 0), Name_0, 7, LineTypeWithSection)>>}

WriterBlocks ==
    {<<>>,
     <<DxfBlock(Name_A, <<>>)>>,
     <<DxfBlock(Name_A, <<PlainLine>>), DxfBlock(Name_A, <<LayerLine>>)>>,
     <<DxfBlock(Model_Space, <<PlainLine>>)>>,
     <<DxfBlock(Name_A, <<LayerLine, TextHi>>), DxfBlock(Name_B, <<InsertA>>)>>}

WriterLayers ==
    {<<>>,
     <<DxfLayer(Name_L1, 3, DASHED, FALSE, FALSE)>>,
     <<DxfLayer(Name_L1, 3, DOT, TRUE, TRUE),
       DxfLayer(Name_0, 1, CONTINUOUS, FALSE, TRUE),
       DxfLayer(Name_L1, 5, DASHDOT, FALSE, FALSE)>>,
     <<DxfLayer(Name_A, 2, CONTINUOUS, FALSE, FALSE),
       DxfLayer(Name_A \o <<13>>, 4, CONTINUOUS, FALSE, FALSE)>>}

WriterDocs ==
    {[layers |-> l, entities |-> e, blocks |-> b1, unsupported_entities |-> <<>>] :
        l \in WriterLayers, e \in WriterEntities, b1 \in WriterBlocks}

(***************************************************************************)
(* dxf.rs: document_to_string, one step per statement of write_document.   *)
(* dxf is the document passed in.                                          *)
(***************************************************************************)
WriterInit ==
    /\ dxf \in WriterDocs
    /\ WriterNew
    /\ write_pc = "ensure_block_record_table"
    /\ pc = "start"
    /\ frames = <<>>
    /\ expanding_stack = <<>>
    /\ unsupported_entities = <<>>
    /\ doc = NoDocument
    /\ options = [explode_inserts |-> FALSE, max_block_nesting |-> 32]
    /\ validation = None
    /\ CallIdle
    /\ ParserIdle

writer_only ==
    UNCHANGED <<doc, options, pc, frames, expanding_stack, unsupported_entities, dxf,
                validation, call_vars, parser_vars>>

\* self.ensure_block_record_table(doc)
write_document_ensure_block_record_table ==
    /\ write_pc = "ensure_block_record_table"
    /\ LET w == ensure_block_record_table(
                    [order |-> block_record_order, handles |-> block_record_handles,
                     next_handle |-> next_handle], dxf)
       IN /\ block_record_order' = w.order
          /\ block_record_handles' = w.handles
          /\ next_handle' = w.next_handle
    /\ write_pc' = "write_header"
    /\ UNCHANGED out_text
    /\ writer_only

\* self.write_header()
write_document_header ==
    /\ write_pc = "write_header"
    /\ out_text' = out_text \o write_header
    /\ write_pc' = "write_tables"
    /\ UNCHANGED <<next_handle, block_record_order, block_record_handles>>
    /\ writer_only

\* self.write_tables(doc)
write_document_tables ==
    /\ write_pc = "write_tables"
    /\ LET w == write_tables(dxf, block_record_order, block_record_handles, next_handle)
       IN /\ out_text' = out_text \o w.out
          /\ next_handle' = w.next_handle
    /\ write_pc' = "write_blocks"
    /\ UNCHANGED <<block_record_order, block_record_handles>>
    /\ writer_only

\* self.write_blocks(doc)
write_document_blocks ==
    /\ write_pc = "write_blocks"
    /\ LET w == write_blocks(dxf, block_record_handles, next_handle)
       IN /\ out_text' = out_text \o w.out
          /\ next_handle' = w.next_handle
    /\ write_pc' = "write_entities"
    /\ UNCHANGED <<block_record_order, block_record_handles>>
    /\ writer_only

\* self.write_entities(doc)
write_document_entities ==
    /\ write_pc = "write_entities"
    /\ LET w == write_entities(dxf, block_record_handles, next_handle)
       IN /\ out_text' = out_text \o w.out
          /\ next_handle' = w.next_handle
    /\ write_pc' = "write_objects"
    /\ UNCHANGED <<block_record_order, block_record_handles>>
    /\ writer_only

\* self.write_objects(doc)
write_document_objects ==
    /\ write_pc = "write_objects"
    /\ LET w == write_objects(next_handle)
       IN /\ out_text' = out_text \o w.out
          /\ next_handle' = w.next_handle
    /\ write_pc' = "eof"
    /\ UNCHANGED <<block_record_order, block_record_handles>>
    /\ writer_only

\* self.group_str(0, "EOF"), and writer.finish()
write_document_eof ==
    /\ write_pc = "eof"
    /\ out_text' = out_text \o group_lit(0, "EOF")
    /\ write_pc' = "done"
    /\ UNCHANGED <<next_handle, block_record_order, block_record_handles>>
    /\ writer_only

WriterNext ==
    \/ write_document_ensure_block_record_table
    \/ write_document_header
    \/ write_document_tables
    \/ write_document_blocks
    \/ write_document_entities
    \/ write_document_objects
    \/ write_document_eof

WriterSpec == WriterInit /\ [][WriterNext]_vars

(***************************************************************************)
(* The block graph of a document, as the converter resolves it.            *)
(***************************************************************************)
EffectiveDef(n) == block_defs_by_number(doc.block_defs, n)
RefsOf(es) == {es[k].def_number : k \in {j \in DOMAIN es : es[j].kind = "Block"}}
Edges(n) ==
    IF EffectiveDef(n) = 0 THEN {}
    ELSE {m \in RefsOf(doc.block_defs[EffectiveDef(n)].entities) : EffectiveDef(m) # 0}

RECURSIVE ReachFrom(_)
ReachFrom(S) ==
    LET T == S \cup UNION {Edges(n) : n \in S}
    IN IF T = S THEN S ELSE ReachFrom(T)

OnCycle(n) == EffectiveDef(n) # 0 /\ n \in ReachFrom(Edges(n))
HasCycle == \E n \in RefNumbers : OnCycle(n)
TopTargets == {m \in RefsOf(doc.entities) : EffectiveDef(m) # 0}
ReachableCycle == \E n \in ReachFrom(TopTargets) : OnCycle(n)
DistinctDefNumbers == {doc.block_defs[i].number : i \in DOMAIN doc.block_defs}

Exploded == pc = "done" /\ options.explode_inserts
Recorded(tag) ==
    \E n \in RefNumbers : Diagnostic(tag, n) \in Range(dxf.unsupported_entities)

(***************************************************************************)
(* dxf.rs: the layers of a conversion.  convert_document on documents      *)
(* whose header names the layers and whose entities carry their            *)
(* EntityBase; a name is the sequence of its code points.                  *)
(***************************************************************************)
\* char::is_whitespace (White_Space of Unicode)
is_whitespace(ch) ==
    ch \in {9, 10, 11, 12, 13, 32, 133, 160, 5760, 8232, 8233, 8239, 8287, 12288}
              \cup (8192..8202)

RECURSIVE trim_start(_)
trim_start(str) ==
    IF str # <<>> /\ is_whitespace(Head(str)) THEN trim_start(Tail(str)) ELSE str

RECURSIVE trim_end(_)
trim_end(str) ==
    IF str # <<>> /\ is_whitespace(str[Len(str)])
    THEN trim_end(SubSeq(str, 1, Len(str) - 1))
    ELSE str

trim(str) == trim_end(trim_start(str))

layer_name(document, layer_group, layer) ==
    LET candidate == IF layer_group < 16 /\ layer < 16
                     THEN trim(document.header.layer_groups[layer_group + 1]
                                 .layers[layer + 1].name)
                     ELSE <<>>
    IN IF candidate # <<>> THEN candidate ELSE default_layer_name(layer_group, layer)

map_color(pen_color) ==
    CASE pen_color \in {1, 8} -> 7
      [] pen_color = 2 -> 5
      [] pen_color = 3 -> 1
      [] pen_color = 4 -> 6
      [] pen_color = 5 -> 3
      [] pen_color = 6 -> 4
      [] pen_color = 7 -> 2
      [] pen_color = 9 -> 8
      [] OTHER -> IF pen_color % 255 < 1 THEN 1 ELSE pen_color % 255

map_line_type(pen_style) ==
    CASE pen_style = 0 -> CONTINUOUS
      [] pen_style = 1 -> DASHED
      [] pen_style = 2 -> DASHDOT
      [] pen_style = 3 -> DOT
      [] pen_style = 4 -> DASHED2
      [] OTHER -> BYLAYER

convert_layers(document) ==
    Flatten([g \in 1..16 |->
        [l \in 1..16 |->
            LET layer == document.header.layer_groups[g].layers[l]
            IN DxfLayer(IF layer.name = <<>> THEN default_layer_name(g - 1, l - 1)
                        ELSE layer.name,
                        (((g - 1) * 16 + (l - 1)) % 255) + 1,
                        CONTINUOUS, layer.state = 0, layer.protect # 0)]])

\* convert_entity with the layer, color and line type it takes from the base
convert_entity_of_base(document, entity) ==
    LET layer == layer_name(document, entity.base.layer_group, entity.base.layer)
        color == map_color(entity.base.pen_color)
        line_type == map_line_type(entity.base.pen_style)
        converted == convert_entity(document.block_defs, entity).value
    IN [k \in DOMAIN converted |-> styled(converted[k], layer, color, line_type)]

convert_entities_of_base(document, entities) ==
    Flatten([k \in DOMAIN entities |-> convert_entity_of_base(document, entities[k])])

convert_document(document) ==
    [layers |-> convert_layers(document),
     entities |-> convert_entities_of_base(document, document.entities),
     blocks |-> [i \in DOMAIN document.block_defs |->
                   DxfBlock(block_def_name(document.block_defs[i].number,
                                           document.block_defs[i].name),
                            convert_entities_of_base(document,
                                                     document.block_defs[i].entities))],
     unsupported_entities |-> <<>>]

\* headers: the names parse_header gives when it could read none; names of
\* which two are given; names with a space at the end and of spaces only, as
\* read from a file; the names of JwwHeader::default(), all empty
EntityBaseOf(layer_group, layer) ==
    [group |-> 0, pen_style |-> 0, pen_color |-> 2, pen_width |-> 0, layer |-> layer,
     layer_group |-> layer_group, flag |-> 0]
HeaderOf(names) ==
    [version |-> 600, memo |-> <<>>, paper_size |-> 0, write_layer_group |-> 0,
     layer_groups |->
        [g \in 1..16 |->
            [state |-> 0, write_layer |-> 0, scale |-> F64_1, protect |-> 0,
             name |-> default_group_name(g - 1),
             layers |-> [l \in 1..16 |->
                           [state |-> 0, protect |-> 0, name |-> names[g][l]]]]]]
NamesDefault == [g \in 1..16 |-> [l \in 1..16 |-> default_layer_name(g - 1, l - 1)]]
NamesSome ==
    [NamesDefault EXCEPT ![1][1] = <<65, 49>>, ![16][16] = <<90>>]
NamesSpaced ==
    [NamesDefault EXCEPT ![1][1] = <<65, 49, 32>>, ![1][2] = <<32, 32>>]
NamesEmpty == [g \in 1..16 |-> [l \in 1..16 |-> <<>>]]
LayerHeaders == {HeaderOf(n) : n \in {NamesDefault, NamesSome, NamesSpaced, NamesEmpty}}

\* entities with a base: lines on the layers (0,0), (0,1), (15,15), and with
\* the indices (16,0) and (255,65535) no parser rejects
LineOn(layer_group, layer) ==
    Line(0, 0, 1, 0) @@ [base |-> EntityBaseOf(layer_group, layer)]
LayerPairs == {<<0, 0>>, <<0, 1>>, <<15, 15>>, <<16, 0>>, <<255, 65535>>}
LinesOnLayers == {LineOn(gl[1], gl[2]) : gl \in LayerPairs}
LayerDocs ==
    {[header |-> h, entities |-> top, block_defs |-> defs] :
        h \in LayerHeaders,
        top \in SeqsUpTo(LinesOnLayers, MaxTop),
        defs \in {<<>>} \cup {<<BlockDef(1, "B1", <<e>>)>> : e \in LinesOnLayers}}

LayerInit ==
    /\ doc \in LayerDocs
    /\ options = [explode_inserts |-> FALSE, max_block_nesting |-> 32]
    /\ ConverterAtStart
    /\ CallIdle
    /\ WriterIdle
    /\ validation = None
    /\ ParserIdle

\* convert_document(&doc)
convert_document_call ==
    /\ pc = "start"
    /\ dxf' = convert_document(doc)
    /\ pc' = "done"
    /\ UNCHANGED <<call_vars, writer_vars, parser_vars, doc, options, frames,
                   expanding_stack, unsupported_entities, validation>>

LayerNext == convert_document_call

LayerSpec == LayerInit /\ [][LayerNext]_vars

(***************************************************************************)
(* C1.  Whatever the document (unresolved, cyclic or depth-limited block   *)
(* references included) and whatever max_block_nesting, the DxfDocument    *)
(* returned with explode_inserts has an empty blocks list and no INSERT    *)
(* among its entities.                                                     *)
(***************************************************************************)
C1_ExplodeNoInsertNoBlocks ==
    Exploded =>
        /\ dxf.blocks = <<>>
        /\ \A k \in DOMAIN dxf.entities : dxf.entities[k].type # "INSERT"

\* an exploded document with entities, a skipped cyclic reference and a
\* skipped unresolved one
C1_Witness ==
    /\ Exploded
    /\ dxf.entities # <<>>
    /\ Recorded("BLOCK_CYCLE")
    /\ Recorded("UNRESOLVED_BLOCK")

(***************************************************************************)
(* C2.  Explode conversion terminates: every run with explode_inserts,     *)
(* cyclic block definitions and any max_block_nesting included, reaches    *)
(* the return of convert_document_with_options.                            *)
(***************************************************************************)
C2_ExplodeTerminates == options.explode_inserts ~> pc = "done"

\* a cyclic document converted with the largest max_block_nesting
C2_Witness ==
    /\ Exploded
    /\ HasCycle
    /\ options.max_block_nesting = UsizeMax
    /\ Recorded("BLOCK_CYCLE")

\* the recursion never nears the cap the model puts on it
FramesWithinCap == Len(frames) < MaxFrames

(***************************************************************************)
(* C3 as stated.  Whenever the block definitions form a reference cycle,   *)
(* explode leaves a BLOCK_CYCLE(n) entry in unsupported_entities.          *)
(***************************************************************************)
C3_CycleAlwaysReported == (Exploded /\ HasCycle) => Recorded("BLOCK_CYCLE")

(***************************************************************************)
(* C3 amended.  When a block definition on a reference cycle is reachable  *)
(* from the top-level entities and max_block_nesting exceeds the number of *)
(* distinct BlockDef numbers, explode leaves a BLOCK_CYCLE(n) entry.       *)
(***************************************************************************)
C3_ReachableCycleReported ==
    (/\ Exploded
     /\ ReachableCycle
     /\ options.max_block_nesting > Cardinality(DistinctDefNumbers))
        => Recorded("BLOCK_CYCLE")

\* a reachable cycle through two definitions, converted with a finite limit
C3_Witness ==
    /\ Exploded
    /\ ReachableCycle
    /\ \E n \in RefNumbers : OnCycle(n) /\ n \notin Edges(n)
    /\ options.max_block_nesting = Cardinality(DistinctDefNumbers) + 1

(***************************************************************************)
(* C4.  A visited BlockRef to n is handled by the first matching rule:     *)
(* stack size >= max_block_nesting records BLOCK_DEPTH_LIMIT(n); else n on *)
(* the stack records BLOCK_CYCLE(n); else no BlockDef numbered n records   *)
(* UNRESOLVED_BLOCK(n); else it is expanded.  A skipped BlockRef appends   *)
(* exactly one diagnostic and adds no entity, and no entity is emitted     *)
(* more than max_block_nesting block levels deep.                          *)
(***************************************************************************)
C4_Skipped(tag) ==
    /\ unsupported_entities' =
          Append(unsupported_entities, Diagnostic(tag, Current.def_number))
    /\ expanding_stack' = expanding_stack
    /\ Len(frames') = Len(frames)
    /\ frames'[Len(frames)].out = Top.out
    /\ frames'[Len(frames)].idx = Top.idx + 1

C4_Expanded ==
    /\ unsupported_entities' = unsupported_entities
    /\ expanding_stack' = Append(expanding_stack, Current.def_number)
    /\ Len(frames') = Len(frames) + 1
    /\ frames'[Len(frames)] = Top

C4_VisitBlockRef ==
    (AtEntity /\ Current.kind = "Block") =>
        IF Len(expanding_stack) >= options.max_block_nesting
        THEN C4_Skipped("BLOCK_DEPTH_LIMIT")
        ELSE IF Current.def_number \in Range(expanding_stack)
        THEN C4_Skipped("BLOCK_CYCLE")
        ELSE IF \A i \in DOMAIN doc.block_defs :
                    doc.block_defs[i].number # Current.def_number
        THEN C4_Skipped("UNRESOLVED_BLOCK")
        ELSE C4_Expanded

C4_EmitWithinLimit ==
    (AtEntity /\ Current.kind # "Block" /\ Len(frames'[Len(frames)].out) > Len(Top.out))
        => Len(expanding_stack) <= options.max_block_nesting

C4_BlockRefRuleOrder == [][C4_VisitBlockRef /\ C4_EmitWithinLimit]_vars

\* a BlockRef for which two rules match: its number is on the stack and
\* the stack is at the limit
C4_Witness ==
    /\ AtEntity
    /\ Current.kind = "Block"
    /\ Current.def_number \in Range(expanding_stack)
    /\ Len(expanding_stack) >= options.max_block_nesting

(***************************************************************************)
(* C5.  The stack of expanding def numbers never holds more than           *)
(* max_block_nesting entries, its entries are pairwise distinct numbers of *)
(* existing BlockDefs, it holds one entry per nested call, and it is empty *)
(* when the conversion returns.                                            *)
(***************************************************************************)
C5_StackInvariant ==
    /\ Len(expanding_stack) <= options.max_block_nesting
    /\ \A i, j \in DOMAIN expanding_stack :
          i # j => expanding_stack[i] # expanding_stack[j]
    /\ \A i \in DOMAIN expanding_stack : expanding_stack[i] \in DistinctDefNumbers
    /\ pc = "exploding" => Len(expanding_stack) = Len(frames) - 1
    /\ pc = "done" => expanding_stack = <<>>

\* a traversal with the stack full: as many entries as max_block_nesting allows
C5_Witness ==
    /\ pc = "exploding"
    /\ Len(expanding_stack) = options.max_block_nesting
    /\ Len(expanding_stack) = MaxDefs

\* the stack is empty again after a run that pushed
C5_Returned == Exploded /\ dxf.entities # <<>> /\ expanding_stack = <<>>

(***************************************************************************)
(* C6.  Without explode_inserts the top-level entities are mapped in       *)
(* order: a Line, Arc, Text, Solid or BlockRef gives one DXF entity, a     *)
(* non-temporary Point one POINT, a temporary Point none, a Dimension a    *)
(* LINE followed by a TEXT; the output holds                               *)
(* #entities - #temporary points + #dimensions entities.                   *)
(***************************************************************************)
C6_ArcTypes == {"CIRCLE", "ARC", "ELLIPSE"}

\* the sets of types the entities of one source entity may have, in order
C6_Expected(e) ==
    CASE e.kind = "Line" -> <<{"LINE"}>>
      [] e.kind = "Arc" -> <<C6_ArcTypes>>
      [] e.kind = "Text" -> <<{"TEXT"}>>
      [] e.kind = "Solid" -> <<{"SOLID"}>>
      [] e.kind = "Block" -> <<{"INSERT"}>>
      [] e.kind = "Point" -> IF e.is_temporary THEN <<>> ELSE <<{"POINT"}>>
      [] e.kind = "Dimension" -> <<{"LINE"}, {"TEXT"}>>

C6_Count(P(_)) == Cardinality({k \in DOMAIN doc.entities : P(doc.entities[k])})
C6_IsTemporary(e) == e.kind = "Point" /\ e.is_temporary
C6_IsDimension(e) == e.kind = "Dimension"

C6_PlainMapping ==
    (pc = "done" /\ ~options.explode_inserts) =>
        LET expected == Flatten([k \in DOMAIN doc.entities |-> C6_Expected(doc.entities[k])])
        IN /\ Len(dxf.entities) = Len(expected)
           /\ \A k \in DOMAIN dxf.entities : dxf.entities[k].type \in expected[k]
           /\ Len(dxf.entities) =
                 Len(doc.entities) - C6_Count(C6_IsTemporary) + C6_Count(C6_IsDimension)

\* a converted document with a temporary Point followed by a Dimension
C6_Witness ==
    /\ pc = "done"
    /\ ~options.explode_inserts
    /\ doc.entities = <<TempPointE, DimensionE>>
    /\ Len(dxf.entities) = 2

(***************************************************************************)
(* C7.  validate_block_references: total_references counts every BlockRef *)
(* among the top-level entities and inside every block definition          *)
(* (duplicates counted); resolved_references counts those whose def_number *)
(* equals some BlockDef number; unresolved_def_numbers is the strictly     *)
(* ascending, duplicate-free list of the referenced numbers matching no    *)
(* BlockDef; total - resolved is the number of unresolved occurrences and  *)
(* has_unresolved holds exactly when resolved < total.                     *)
(***************************************************************************)
\* the occurrences of a BlockRef: <<0, k>> at the top level, <<i, k>> in block_defs[i]
C7_Occurrences ==
    {<<0, k>> : k \in {j \in DOMAIN doc.entities : doc.entities[j].kind = "Block"}}
      \cup UNION {{<<i, k>> : k \in {j \in DOMAIN doc.block_defs[i].entities :
                                       doc.block_defs[i].entities[j].kind = "Block"}} :
                  i \in DOMAIN doc.block_defs}
C7_Number(o) ==
    IF o[1] = 0 THEN doc.entities[o[2]].def_number
    ELSE doc.block_defs[o[1]].entities[o[2]].def_number
C7_Defined(n) == \E i \in DOMAIN doc.block_defs : doc.block_defs[i].number = n

C7_ValidationContract ==
    validation # None =>
        LET v == validation.value
            u == v.unresolved_def_numbers
            missing == {o \in C7_Occurrences : ~C7_Defined(C7_Number(o))}
        IN /\ v.total_references = Cardinality(C7_Occurrences)
           /\ v.resolved_references =
                 Cardinality({o \in C7_Occurrences : C7_Defined(C7_Number(o))})
           /\ \A k \in 1..(Len(u) - 1) : u[k] < u[k + 1]
           /\ Range(u) = {C7_Number(o) : o \in missing}
           /\ v.total_references - v.resolved_references = Cardinality(missing)
           /\ has_unresolved(v) <=> v.resolved_references < v.total_references

\* two unknown numbers, first met in descending order, one of them referenced
\* twice, next to a resolved reference
C7_Witness ==
    /\ validation # None
    /\ Len(validation.value.unresolved_def_numbers) >= 2
    /\ validation.value.resolved_references >= 1
    /\ validation.value.total_references >
          validation.value.resolved_references
            + Len(validation.value.unresolved_def_numbers)
    /\ Len(doc.entities) = 2
    /\ doc.entities[1].def_number > doc.entities[2].def_number
    /\ ~C7_Defined(doc.entities[2].def_number)

(***************************************************************************)
(* C8.  In every document returned by parse_document the BlockDef numbers  *)
(* are unique: no two entries of block_defs carry the same number.         *)
(***************************************************************************)
C8_BlockDefNumbersUnique ==
    result = "Ok" =>
        \A i, j \in DOMAIN parsed.block_defs :
            i # j => parsed.block_defs[i].number # parsed.block_defs[j].number

(***************************************************************************)
(* C9.  Any parse error inside a block definition record, an error inside  *)
(* its nested entity list included, ends the block section: block_defs     *)
(* keeps exactly the definitions parsed before the record, and no later    *)
(* record is parsed.                                                       *)
(***************************************************************************)
\* the record the loop is about to read has an error in its own fields or in
\* its nested entity list
C9_RecordHasError ==
    /\ parse_pc = "block_defs"
    /\ remaining > 0
    /\ LET h == parse_block_def_head(data, reader, version, class_map, next_id)
       IN \/ ~h.ok
          \/ /\ h.value.head # None
             /\ ~parse_entity_list(data, h.pos, version).ok

C9_ErrorEndsBlockSection ==
    [][C9_RecordHasError =>
          /\ parsed'.block_defs = parsed.block_defs
          /\ parse_pc' = "return"]_vars

(***************************************************************************)
(* C10.  Once the top-level entity list has decoded (the header has, in    *)
(* every run of the model), parse_document returns Ok with exactly those   *)
(* top-level entities, whatever the block section holds: nothing, a        *)
(* truncated or malformed section, or a count above 10,000, in which case  *)
(* block_defs is empty.                                                    *)
(***************************************************************************)
C10_TopLevel == parse_entity_list(data, 0, version)
C10_Count == read_u32(data, C10_TopLevel.pos)

PatternAt(d, ver, i) ==
    /\ i + 6 <= Len(d)
    /\ SubSeq(d, i + 1, i + 4) = <<255, 255, ver % 256, (ver \div 256) % 256>>
    /\ LET name_len == d[i + 5] + 256 * d[i + 6]
       IN /\ name_len \in 8..32
          /\ i + 6 + name_len <= Len(d)
          /\ SubSeq(d, i + 7, i + 11) = <<67, 68, 97, 116, 97>>
PatternPositions(d, ver) == {i \in 100..Len(d) : PatternAt(d, ver, i)}
Smallest(S) == CHOOSE i \in S : \A j \in S : i <= j
HeaderDecoded == header # None
PastLocate == HeaderDecoded /\ parse_pc \notin {"header", "locate"}
ListLocated == PastLocate /\ error # Some(EntityListNotFound)

\* the lengths the file is cut to, around the two limits of the search
C11_Lengths == {120, 121, 127, 128, Len(file)}

(***************************************************************************)
(* C11 (as stated).  find_entity_list_offset returns i - 2 for the         *)
(* smallest position i >= 100 where the pattern occurs, and parse_document *)
(* fails with EntityListNotFound exactly when the file holds no such       *)
(* position.                                                               *)
(***************************************************************************)
C11_SmallestAnchorFound ==
    PastLocate =>
        LET S == PatternPositions(file, version)
        IN /\ error = Some(EntityListNotFound) <=> S = {}
           /\ ListLocated /\ S # {} => entity_list_offset = Smallest(S) - 2

(***************************************************************************)
(* C11 (amended).  Only the positions i with i + 20 < length count, and    *)
(* only in inputs of at least 128 bytes: find_entity_list_offset returns   *)
(* i - 2 for the smallest such position i >= 100 where the pattern occurs  *)
(* and None when there is none; once the header is decoded parse_document  *)
(* fails with EntityListNotFound exactly when there is none, and otherwise *)
(* reads the entity list from that offset.                                 *)
(***************************************************************************)
C11_EntityListLocated ==
    HeaderDecoded =>
        /\ \A n \in C11_Lengths :
              LET d == SubSeq(file, 1, n)
                  S == {i \in PatternPositions(d, header.value.version) :
                           i + 20 < Len(d) /\ Len(d) >= 128}
              IN find_entity_list_offset(d, header.value.version) =
                     IF S = {} THEN None ELSE Some(Smallest(S) - 2)
        /\ PastLocate =>
              LET S == {i \in PatternPositions(file, version) : i + 20 < Len(file)}
              IN /\ error = Some(EntityListNotFound) <=> S = {}
                 /\ ListLocated =>
                       /\ entity_list_offset = Smallest(S) - 2
                       /\ data = SubSeq(file, entity_list_offset + 1, Len(file))

\* a file with the pattern at offset 100 and again later: the list is read
\* from offset 98
C11_Witness ==
    /\ ListLocated
    /\ Cardinality(PatternPositions(file, version)) >= 2
    /\ entity_list_offset = 98

(***************************************************************************)
(* The record the loop of parse_entity_list is about to read.              *)
(***************************************************************************)
AtRecord == parse_pc = "entities" /\ remaining > 0
ClassId == read_u16(data, reader)
IsDefinition == ClassId.ok /\ ClassId.value = 65535
IsSentinel == ClassId.ok /\ ClassId.value = 32768
IsReference == ClassId.ok /\ ClassId.value \notin {65535, 32768}
RecordDecoded == parse_pc' = "entities" /\ remaining' = remaining - 1
\* the class name a 0xFFFF record at the reader carries
DefinedName ==
    LET h == read_fields(data, reader + 2, <<"u16", "u16">>)
    IN IF h.ok THEN read_bytes(data, h.pos, h.value[2]) ELSE h

(***************************************************************************)
(* C12.  In the top-level entity list the id counter starts at 1 and after *)
(* every prefix of decoded records equals 1 plus the number of decoded     *)
(* records that are not the 0x8000 sentinel plus the number of 0xFFFF      *)
(* records: a decoded 0xFFFF record registers its class name under the     *)
(* current counter and takes two ids, any other decoded record takes one,  *)
(* and the 0x8000 sentinel takes none and appends no entity.               *)
(***************************************************************************)
C12_CounterStep ==
    /\ parse_pc = "start" /\ parse_pc' = "entities" =>
          next_id' = 1 /\ class_map' = <<>> /\ parsed'.entities = <<>>
    /\ AtRecord /\ RecordDecoded =>
          /\ IsDefinition =>
                /\ next_id' = next_id + 2
                /\ class_map' = [k \in DOMAIN class_map \cup {next_id} |->
                                    IF k = next_id THEN DefinedName.value
                                    ELSE class_map[k]]
                /\ Len(parsed'.entities) = Len(parsed.entities) + 1
          /\ IsSentinel =>
                /\ next_id' = next_id
                /\ class_map' = class_map
                /\ parsed'.entities = parsed.entities
          /\ IsReference =>
                /\ next_id' = next_id + 1
                /\ class_map' = class_map
                /\ Len(parsed'.entities) = Len(parsed.entities) + 1
    /\ AtRecord /\ ~RecordDecoded => result' = "Err"
C12_CounterValue ==
    parse_pc = "entities" =>
        /\ next_id = 1 + Len(parsed.entities) + Cardinality(DOMAIN class_map)
        /\ \A k \in DOMAIN class_map : k < next_id
C12_IdCounter == [][C12_CounterStep]_vars /\ []C12_CounterValue

\* a list of which a definition, a sentinel and a reference have been decoded
C12_Witness ==
    /\ parse_pc = "entities"
    /\ remaining = 0
    /\ file = HeaderBytes(600) \o TopOfLines(600)
    /\ next_id = 4
    /\ Len(parsed.entities) = 2

(***************************************************************************)
(* C13.  In the top-level list, the first record whose class id is neither *)
(* 0xFFFF nor 0x8000 and whose id with the high bit cleared (0 included)   *)
(* is not registered makes parse_document fail with UnknownClassPid of     *)
(* that id; a record whose class name is none of the seven names decoded   *)
(* makes it fail with UnknownEntityClass of that name.  Nothing of the     *)
(* document is returned then.                                              *)
(***************************************************************************)
DispatchNames ==
    {Name_CDataSen, Name_CDataEnko, Name_CDataTen, Name_CDataMoji, Name_CDataSolid,
     Name_CDataBlock, Name_CDataSunpou}
Fails(e) ==
    /\ result' = "Err"
    /\ error' = Some(e)
    /\ parse_pc' = "done"
    /\ parsed' = NoDocument
UnregisteredReference == AtRecord /\ IsReference /\ ClassId.value % 32768 \notin DOMAIN class_map
C13_FailingStep ==
    /\ UnregisteredReference => Fails(UnknownClassPid(ClassId.value % 32768))
    /\ AtRecord /\ IsDefinition /\ DefinedName.ok /\ DefinedName.value \notin DispatchNames
          => Fails(UnknownEntityClass(DefinedName.value))
    /\ AtRecord /\ IsReference /\ ~UnregisteredReference
         /\ class_map[ClassId.value % 32768] \notin DispatchNames
          => Fails(UnknownEntityClass(class_map[ClassId.value % 32768]))
C13_NothingReturned ==
    result = "Err" => parsed = NoDocument /\ parse_pc = "done"
C13_UnknownClassFails == [][C13_FailingStep]_vars /\ []C13_NothingReturned

\* a list that fails at its second record, a reference to the id 2 that the
\* line before it has taken without registering a class under it
C13_Witness ==
    /\ result = "Err"
    /\ error = Some(UnknownClassPid(2))
    /\ next_id = 3
    /\ parsed = NoDocument
C13_WitnessZero == result = "Err" /\ error = Some(UnknownClassPid(0))
C13_WitnessName == result = "Err" /\ error = Some(UnknownEntityClass(Name_CDataXXXX))

(***************************************************************************)
(* The names a decoded header carries, and the names its file holds.       *)
(***************************************************************************)
HexDigit == <<48, 49, 50, 51, 52, 53, 54, 55, 56, 57, 65, 66, 67, 68, 69, 70>>
LayerDefault(g, l) == <<HexDigit[g + 1], 45, HexDigit[l + 1]>>         \* "{g:X}-{l:X}"
GroupDefault(g) == <<71, 114, 111, 117, 112, HexDigit[g + 1]>>         \* "Group{g:X}"
LayerName(g, l) == header.value.layer_groups[g + 1].layers[l + 1].name
GroupName(g) == header.value.layer_groups[g + 1].name
\* where the fields before the names begin: after the signature, the version,
\* the memo with its length byte, two u32 and the 16 layer groups
NamesStart == 8 + 4 + 1 + Len(header.value.memo) + 4 + 4 + 16 * (20 + 16 * 8)
NamesRead == parse_layer_names(file, NamesStart, header.value.version)

(***************************************************************************)
(* C16.  After every successful parse_header the 256 layer names and the   *)
(* 16 group names are non-empty: when the names could not be read every    *)
(* name is its default, "{g:X}-{l:X}" for layer (g, l) and "Group{g:X}"    *)
(* for group g, and when they could, each name read as empty is its        *)
(* default and every other name is as read.                                *)
(***************************************************************************)
C16_NamesNonEmpty ==
    HeaderDecoded =>
        LET names == NamesRead
            layer_groups == header.value.layer_groups
        IN \A g \in 0..15 :
              /\ layer_groups[g + 1].name # <<>>
              /\ layer_groups[g + 1].name =
                    IF ~names.ok \/ names.value.groups[g + 1] = <<>>
                    THEN GroupDefault(g) ELSE names.value.groups[g + 1]
              /\ \A l \in 0..15 :
                    /\ layer_groups[g + 1].layers[l + 1].name # <<>>
                    /\ layer_groups[g + 1].layers[l + 1].name =
                          IF ~names.ok \/ names.value.layers[g + 1][l + 1] = <<>>
                          THEN LayerDefault(g, l) ELSE names.value.layers[g + 1][l + 1]

\* a header whose file gives the name "A1" to layer (0, 0), a NUL byte to
\* layer (0, 1), "GR1" to group 0 and nothing to the others
C16_Witness ==
    /\ HeaderDecoded
    /\ NamesRead.ok
    /\ LayerName(0, 0) = <<65, 49>>
    /\ LayerName(0, 1) = <<48, 45, 49>>
    /\ LayerName(10, 15) = <<65, 45, 70>>
    /\ GroupName(0) = <<71, 82, 49>>
    /\ GroupName(15) = <<71, 114, 111, 117, 112, 70>>
\* headers whose names could not be read: the file ends inside them, or the
\* version is below 300
C16_WitnessCutShort ==
    HeaderDecoded /\ file = HeaderBytes(600) \o NamesCutShort /\ ~NamesRead.ok
C16_WitnessOldVersion ==
    HeaderDecoded /\ header.value.version = 299 /\ LayerName(1, 0) = <<49, 45, 48>>

(***************************************************************************)
(* The last call on the Reader.                                            *)
(***************************************************************************)
Called(name) == call # None /\ call.value.name = name
CalledAt == call.value.at
\* the length prefix that stands at offset p of the buffer, when it is whole:
\* its size in bytes and the length it gives
PrefixAt(p) ==
    IF p + 1 > Len(data) THEN None
    ELSE IF data[p + 1] < 255 THEN Some([size |-> 1, length |-> data[p + 1]])
    ELSE IF p + 3 > Len(data) THEN None
    ELSE IF data[p + 2] + 256 * data[p + 3] < 65535
         THEN Some([size |-> 3, length |-> data[p + 2] + 256 * data[p + 3]])
    ELSE IF p + 7 > Len(data) THEN None
    ELSE Some([size |-> 7,
               length |-> data[p + 4] + 256 * data[p + 5] + 65536 * data[p + 6]
                            + 16777216 * data[p + 7]])

(***************************************************************************)
(* C14.  read_cstring takes the length from a prefix of three tiers: a     *)
(* first byte B < 0xFF is the length (1 prefix byte); B = 0xFF and a u16   *)
(* W < 0xFFFF give the length W (3 prefix bytes); otherwise a u32 D is the *)
(* length (7 prefix bytes).  On success the cursor has advanced by the     *)
(* prefix size plus the length, and a length of zero returns the empty     *)
(* string without reading any payload byte, so also at the end of the      *)
(* buffer.                                                                 *)
(***************************************************************************)
C14_CStringPrefix ==
    Called("read_cstring") =>
        LET prefix == PrefixAt(CalledAt)
        IN /\ returned.ok =>
                 /\ prefix # None
                 /\ reader = CalledAt + prefix.value.size + prefix.value.length
                 /\ \E nuls \in 0..prefix.value.length :
                       SubSeq(data, CalledAt + prefix.value.size + 1, reader) =
                           returned.value \o [k \in 1..nuls |-> 0]
           /\ prefix # None /\ prefix.value.length = 0 =>
                 /\ returned.ok
                 /\ returned.value = <<>>
                 /\ reader = CalledAt + prefix.value.size

\* a CString of the third tier read whole: 7 prefix bytes and 2 of payload
C14_Witness ==
    /\ Called("read_cstring")
    /\ returned.ok
    /\ CalledAt = 0
    /\ data = <<255, 255, 255, 2, 0, 0, 0, 65, 66>>
    /\ returned.value = <<65, 66>>
    /\ reader = 9
C14_WitnessSecondTier ==
    /\ Called("read_cstring") /\ returned.ok /\ CalledAt = 0
    /\ data = <<255, 2, 0, 65, 66, 7>> /\ reader = 5
C14_WitnessZeroAtEnd ==
    /\ Called("read_cstring") /\ returned.ok
    /\ data = <<255, 0, 0>> /\ CalledAt = 0 /\ reader = 3 /\ returned.value = <<>>

(***************************************************************************)
(* C15.  A call of skip, read_u8, read_u16, read_u32, read_f64 or          *)
(* read_bytes that needs n bytes at position p of a buffer of length L     *)
(* succeeds and leaves the cursor at p + n exactly when p + n <= L, and    *)
(* otherwise fails with UnexpectedEof and leaves the cursor at p; the      *)
(* position stays within 0..L and never decreases.                         *)
(***************************************************************************)
C15_PrimitivesBounded ==
    /\ reader >= 0
    /\ reader <= Len(data)
    /\ call # None /\ call.value.name # "read_cstring" =>
          /\ reader >= CalledAt
          /\ IF call.value.len <= Len(data) - CalledAt
             THEN returned.ok /\ reader = CalledAt + call.value.len
             ELSE ~returned.ok /\ returned.err = UnexpectedEof /\ reader = CalledAt

(***************************************************************************)
(* C19.  The escape replaces every code point that is not ASCII or is an   *)
(* ASCII control character, CR (dropped) and LF (written \P) apart, by a   *)
(* backslash, "U+" and exactly four uppercase hexadecimal digits that give *)
(* its scalar value; the escaped text holds printable ASCII only.          *)
(***************************************************************************)
HexValue(digit) == IF digit >= 48 /\ digit <= 57 THEN digit - 48 ELSE digit - 55
IsUpperHexDigit(digit) == (digit >= 48 /\ digit <= 57) \/ (digit >= 65 /\ digit <= 70)
Escaped(ch) == ch \notin {10, 13} /\ (ch > 127 \/ ch <= 31 \/ ch = 127)
FourDigitEscape(ch, piece) ==
    /\ Len(piece) = 7
    /\ SubSeq(piece, 1, 3) = <<92, 85, 43>>
    /\ \A k \in 4..7 : IsUpperHexDigit(piece[k])
    /\ ch = 4096 * HexValue(piece[4]) + 256 * HexValue(piece[5])
              + 16 * HexValue(piece[6]) + HexValue(piece[7])
C19_FourHexDigits ==
    call # None /\ call.value.name = "escape_unicode" /\ returned # None =>
        LET value == call.value.value
            pieces == [k \in DOMAIN value |-> escape_unicode(<<value[k]>>)]
        IN /\ returned.value = Flatten(pieces)
           /\ \A k \in DOMAIN value :
                 /\ Escaped(value[k]) => FourDigitEscape(value[k], pieces[k])
                 /\ value[k] = 13 => pieces[k] = <<>>
                 /\ value[k] = 10 => pieces[k] = <<92, 80>>
           /\ \A k \in DOMAIN returned.value :
                 returned.value[k] >= 32 /\ returned.value[k] <= 126

\* the records of the text written: a line holding a code, then a line
\* holding its value
Record(code, value) == [code |-> code_field(code), value |-> value]
Records ==
    [k \in 1..(Len(out_text) \div 2) |->
        [code |-> out_text[2 * k - 1], value |-> out_text[2 * k]]]
RecordsWhere(recs, r) == SelectSeq([k \in DOMAIN recs |-> k], LAMBDA k : recs[k] = r)
DocumentWritten == write_pc = "done"

\* the name of the block begun by record k: the value of the next group 2
BlockNameAt(recs, k) ==
    LET named == {j \in DOMAIN recs : j > k /\ recs[j].code = code_field(2)}
    IN recs[CHOOSE j \in named : \A i \in named : j <= i].value

(***************************************************************************)
(* C17.  The text document_to_string returns is a sequence of records in   *)
(* which the sections HEADER, TABLES, BLOCKS, ENTITIES, OBJECTS begin once *)
(* each, in that order, each closed by ENDSEC before the next begins; the  *)
(* first records are 0/SECTION and 2/HEADER and the last is 0/EOF; the     *)
(* blocks of BLOCKS are *Model_Space, *Paper_Space and then the blocks of  *)
(* the document.                                                           *)
(***************************************************************************)
C17_SectionsInOrder ==
    DocumentWritten =>
        LET recs == Records
            starts == RecordsWhere(recs, Record(0, "SECTION"))
            ends == RecordsWhere(recs, Record(0, "ENDSEC"))
            blocks == RecordsWhere(recs, Record(0, "BLOCK"))
        IN /\ Len(out_text) % 2 = 0
           /\ Len(starts) = 5
           /\ Len(ends) = 5
           /\ \A k \in 1..5 : starts[k] < ends[k]
           /\ \A k \in 1..4 : ends[k] < starts[k + 1]
           /\ [k \in 1..5 |-> recs[starts[k] + 1]]
                 = <<Record(2, "HEADER"), Record(2, "TABLES"), Record(2, "BLOCKS"),
                     Record(2, "ENTITIES"), Record(2, "OBJECTS")>>
           /\ starts[1] = 1
           /\ recs[Len(recs)] = Record(0, "EOF")
           /\ \A k \in DOMAIN blocks : starts[3] < blocks[k] /\ blocks[k] < ends[3]
           /\ [k \in DOMAIN blocks |-> BlockNameAt(recs, blocks[k])]
                 = <<"*Model_Space", "*Paper_Space">>
                     \o [k \in DOMAIN dxf.blocks |->
                            text(escape_unicode(dxf.blocks[k].name))]

(***************************************************************************)
(* C18.  In the text document_to_string returns the values of group 5 are  *)
(* pairwise distinct, each is the non-empty uppercase hexadecimal form of  *)
(* a handle taken from the counter, and each handle taken from the counter *)
(* is the value of exactly one group 5.                                    *)
(***************************************************************************)
C18_HandlesDistinct ==
    DocumentWritten =>
        LET handles == SelectSeq(Records, LAMBDA r : r.code = code_field(5))
            taken == 1..(next_handle - 1)
        IN /\ \A i, j \in DOMAIN handles :
                 i # j => handles[i].value # handles[j].value
           /\ \A i \in DOMAIN handles :
                 \E h \in taken : handles[i].value = alloc_handle(h)
           /\ \A h \in taken :
                 /\ upper_hex(h) # <<>>
                 /\ \A k \in DOMAIN upper_hex(h) : IsUpperHexDigit(upper_hex(h)[k])
                 /\ Cardinality({i \in DOMAIN handles :
                                    handles[i].value = alloc_handle(h)}) = 1

FullCircle(entity) ==
    entity.kind = "Arc" /\ entity.is_full_circle /\ entity.flatness = <<1, 1>>
OnlyFullCircles ==
    doc.entities # <<>> /\ \A k \in DOMAIN doc.entities : FullCircle(doc.entities[k])

CircleEmitted(arc) ==
    IF ~options.explode_inserts \/ arc.radius > 0
    THEN DxfCircle(arc.center_x, arc.center_y, arc.radius)
    ELSE IF arc.radius = 0
    THEN DxfPoint(arc.center_x, arc.center_y)
    ELSE DxfCircle(arc.center_x, arc.center_y, -arc.radius)

C20_WitnessKept ==
    /\ pc = "done"
    /\ ~options.explode_inserts
    /\ doc.entities = <<CircleNegativeE, CircleZeroE>>
    /\ dxf.entities = <<DxfCircle(1, 1, -2), DxfCircle(1, 1, 0)>>

\* the map of one insert: q goes to ref + R(rotation) * (scale_x * q.x, scale_y * q.y)
InsertMap(block, q) ==
    <<block.ref_x + Cos(block.rotation) * (block.scale_x * q[1])
                  - Sin(block.rotation) * (block.scale_y * q[2]),
      block.ref_y + Sin(block.rotation) * (block.scale_x * q[1])
                  + Cos(block.rotation) * (block.scale_y * q[2])>>

\* the inserts being expanded, the outermost first
InsertChain ==
    [j \in 1..(Len(frames) - 1) |-> frame_entities(frames[j])[frames[j].idx]]

\* I1(I2(...Ik(q)))
RECURSIVE ThroughInserts(_, _)
ThroughInserts(chain, q) ==
    IF chain = <<>> THEN q ELSE InsertMap(Head(chain), ThroughInserts(Tail(chain), q))

EmittedAt(entity) ==
    CASE entity.kind = "Line" ->
            LET p1 == ThroughInserts(InsertChain, <<entity.start_x, entity.start_y>>)
                p2 == ThroughInserts(InsertChain, <<entity.end_x, entity.end_y>>)
            IN <<DxfLine(p1[1], p1[2], p2[1], p2[2])>>
      [] entity.kind = "Point" ->
            LET p == ThroughInserts(InsertChain, <<entity.x, entity.y>>)
            IN IF entity.is_temporary THEN <<>> ELSE <<DxfPoint(p[1], p[2])>>

C21_EmitStep ==
    (/\ AtEntity
     /\ Current.kind \in {"Line", "Point"}
     /\ frames' # frames)
        => frames'[Len(frames)].out = Top.out \o EmittedAt(Current)

C21_TopIdentity == pc = "exploding" => frames[1].transform = identity

(***************************************************************************)
(* C21.  In explode mode the call for the top level runs under the         *)
(* identity, and each Line and Point reached under the inserts I1          *)
(* (outermost) ... Ik (innermost) is emitted with its points at            *)
(* I1(I2(...Ik(p))), where an insert maps q to                             *)
(* ref + R(rotation) * (scale_x * q.x, scale_y * q.y).                     *)
(***************************************************************************)
C21_NestedInsertPoints == [][C21_EmitStep]_vars /\ []C21_TopIdentity

\* a line emitted under two inserts, the outer one turned by 90 degrees and
\* scaled, the inner one shifting
C21_Witness ==
    /\ pc = "exploding"
    /\ Len(frames) = 3
    /\ InsertChain[1].rotation = 90
    /\ InsertChain[1].scale_x = 2
    /\ InsertChain[2].ref_y = 2
    /\ Top.idx = 2
    /\ Top.out = <<DxfLine(8, 20, 8, 22)>>

\* a line emitted under two inserts without rotation, the outer one scaling
\* x by 2 and y by 2: ref1 + s1 * (ref2 + s2 * p)
C21_WitnessNoRotation ==
    /\ pc = "exploding"
    /\ Len(frames) = 3
    /\ InsertChain[1].rotation = 0
    /\ InsertChain[1].scale_y = 2
    /\ Top.out # <<>>
    /\ Top.out[1].type = "LINE"
    /\ Top.out[1].y1 = InsertChain[1].ref_y + 2 * InsertChain[2].ref_y

\* the entities of the document returned: the top level and the block definitions
ParsedEntities ==
    Range(parsed.entities)
      \cup UNION {Range(parsed.block_defs[i].entities) : i \in DOMAIN parsed.block_defs}

(***************************************************************************)
(* C22.  Every entity of a document parse_document returns, at the top     *)
(* level and inside the block definitions, has layer < 16 and              *)
(* layer_group < 16.                                                       *)
(***************************************************************************)
C22_LayersInRange ==
    result = "Ok" =>
        \A entity \in ParsedEntities :
            entity.base.layer < 16 /\ entity.base.layer_group < 16

\* the entity list at pos decoded with an empty dictionary and the counter at 1
FreshList(pos) ==
    AndThen(read_u16(data, pos), LAMBDA count :
        parse_entity_loop(data, count.pos, version, count.value, <<>>, 1, <<>>))

\* the first record of the list at pos names its class by an id
FirstRecordIsReference(pos) ==
    LET count == read_u16(data, pos)
        class_id == read_u16(data, pos + 2)
    IN /\ count.ok
       /\ count.value > 0
       /\ class_id.ok
       /\ class_id.value \notin {65535, 32768}

\* the top-level list
C23_TopStep ==
    (parse_pc = "start" /\ parse_pc' # "start") =>
        /\ result' # "Err" => FreshList(0).ok /\ parsed'.entities = FreshList(0).value
        /\ FirstRecordIsReference(0) => result' = "Err"

\* the list of block definitions starts with its own empty dictionary
C23_SectionStep ==
    (parse_pc = "block_section" /\ parse_pc' = "block_defs") =>
        class_map' = <<>> /\ next_id' = 1

\* the nested list of a block definition, and the dictionary of the list of
\* block definitions after it
C23_RecordStep ==
    (/\ parse_pc = "block_defs"
     /\ Len(parsed'.block_defs) = Len(parsed.block_defs) + 1) =>
        LET h == parse_block_def_head(data, reader, version, class_map, next_id)
            fresh == FreshList(h.pos)
            pushed == parsed'.block_defs[Len(parsed'.block_defs)]
        IN /\ pushed.entities = IF fresh.ok THEN fresh.value ELSE <<>>
           /\ FirstRecordIsReference(h.pos) => pushed.entities = <<>>
           /\ class_map' = h.value.class_map
           /\ next_id' = h.value.next_id

(***************************************************************************)
(* C23.  Every entity list is decoded with a dictionary that starts empty  *)
(* and a counter that starts at 1: the top-level list, the nested list of  *)
(* each block definition, and the list of block definitions itself.  A     *)
(* list whose first record names a class by id decodes nothing, whatever   *)
(* the lists before it registered, and the nested list leaves the          *)
(* dictionary of the list of block definitions as it was.                  *)
(***************************************************************************)
C23_DictionaryPerList == [][C23_TopStep /\ C23_SectionStep /\ C23_RecordStep]_vars

\* the top-level list registered CDataSen under id 1 and decoded two lines;
\* the nested list of the first definition names id 1 and decodes nothing
C23_Witness ==
    /\ parse_pc = "done"
    /\ result = "Ok"
    /\ Len(parsed.entities) = 2
    /\ parsed.block_defs # <<>>
    /\ parsed.block_defs[1].number = 1
    /\ parsed.block_defs[1].entities = <<>>
    /\ FirstRecordIsReference(
           parse_block_def_head(data, read_u32(data, section_start).pos, version,
                                <<>>, 1).pos)

\* the nested list of the first definition registered CDataSen; the nested
\* list of the second names id 1 and decodes nothing
C23_WitnessSecondNested ==
    /\ parse_pc = "done"
    /\ result = "Ok"
    /\ Len(parsed.block_defs) >= 2
    /\ Len(parsed.block_defs[1].entities) = 1
    /\ parsed.block_defs[2].number = 2
    /\ parsed.block_defs[2].entities = <<>>
    /\ data \in DictionaryFiles(version)

(***************************************************************************)
(* The fixed part of a header and the region of the names behind it, as    *)
(* the file holds them.                                                    *)
(***************************************************************************)
\* the offset the fixed part ends at, from the length byte of the memo
FixedEnd == 8 + 4 + 1 + file[13] + 4 + 4 + 16 * (20 + 16 * 8)
FixedPartWhole == is_jww_signature(file) /\ Len(file) >= 13 /\ Len(file) >= FixedEnd
\* the region of the names read to its end, whatever the version says
RegionRead == parse_layer_names(file, NamesStart, 300)

C24_WitnessBelow300 ==
    /\ HeaderDecoded
    /\ header.value.version = 299
    /\ RegionRead.ok
    /\ RegionRead.value.layers[1][1] = <<65, 49>>
    /\ LayerName(0, 0) = <<48, 45, 48>>
\* the same region under version 600: "A1" and "GR1" stand in the header
C24_WitnessRecovered ==
    /\ HeaderDecoded
    /\ header.value.version = 600
    /\ RegionRead.ok
    /\ LayerName(0, 0) = <<65, 49>>
    /\ GroupName(0) = <<71, 82, 49>>
    /\ GroupName(1) = GroupDefault(1)

(***************************************************************************)
(* The arcs of a document and the LINEs they are flattened into.           *)
(***************************************************************************)
PartialArc(entity) ==
    entity.kind = "Arc" /\ ~entity.is_full_circle /\ entity.flatness = <<1, 1>>
\* the one arc of the document, at the top level or in the block inserted
OneArc ==
    IF doc.block_defs = <<>> THEN doc.entities[1] ELSE doc.block_defs[1].entities[1]
OneArcExploded ==
    /\ pc = "done"
    /\ options.explode_inserts
    /\ doc \in ArcDocs
\* an end angle raised by 360 until it is not below the start angle
RECURSIVE RaisedEnd(_, _)
RaisedEnd(start, end) == IF end >= start THEN end ELSE RaisedEnd(start, end + 360)
StatedSegments(start, end) ==
    clamp(CeilDiv(Abs(RaisedEnd(start, end) - start) * 96, 360), 8, 192)
IsChain(lines) ==
    /\ \A k \in DOMAIN lines : lines[k].type = "LINE"
    /\ \A k \in 1..(Len(lines) - 1) :
          lines[k].x2 = lines[k + 1].x1 /\ lines[k].y2 = lines[k + 1].y1

(***************************************************************************)
(* C25.  An exploded ARC is emitted as exactly                             *)
(* clamp(ceil(sweep / 360 * 96), 8, 192) LINEs, where sweep = |end - start| *)
(* in degrees after the end angle was raised by 360 until it is not below  *)
(* the start angle; the LINEs form a chain, each starting where the one    *)
(* before it ends, and their number lies between 8 and 192.                *)
(***************************************************************************)
C25_ArcFlattened ==
    OneArcExploded =>
        LET start == rad_to_deg(OneArc.start_angle)
            end == rad_to_deg(OneArc.start_angle + OneArc.arc_angle)
        IN /\ Len(dxf.entities) = StatedSegments(start, end)
           /\ IsChain(dxf.entities)
           /\ Len(dxf.entities) >= 8
           /\ Len(dxf.entities) <= 192

\* what holds of every exploded arc: the end angle is raised by 360 once
C25_RaisedOnce ==
    OneArcExploded =>
        LET start == rad_to_deg(OneArc.start_angle)
            end == rad_to_deg(OneArc.start_angle + OneArc.arc_angle)
            raised == IF end < start THEN end + 360 ELSE end
        IN /\ Len(dxf.entities) = clamp(CeilDiv(Abs(raised - start) * 96, 360), 8, 192)
           /\ IsChain(dxf.entities)
           /\ Len(dxf.entities) >= 8
           /\ Len(dxf.entities) <= 192
\* the arc from 0 that turns by -400 degrees: 11 LINEs, where 86 are stated
C25_FailingArc ==
    /\ OneArcExploded
    /\ OneArc = ArcOf(0, -400)
    /\ Len(dxf.entities) = 11
    /\ StatedSegments(0, -400) = 86

(***************************************************************************)
(* The call of parse_entity_base: the bytes it has consumed, and the       *)
(* little-endian number that stands at an offset from where it began.      *)
(***************************************************************************)
BaseCalled == Called("parse_entity_base") /\ returned # None
BaseConsumed == reader - CalledAt
LeAt(offset, width) ==
    from_le_bytes(SubSeq(data, CalledAt + offset + 1, CalledAt + offset + width))

(***************************************************************************)
(* C26 as stated.  Decoding an EntityBase consumes 15 bytes when the       *)
(* version is below 351 and 17 bytes when it is 351 or more; pen_width is  *)
(* 0 when it is absent.                                                    *)
(***************************************************************************)
C26_BaseSize ==
    (BaseCalled /\ returned.ok) =>
        /\ BaseConsumed = IF version < 351 THEN 15 ELSE 17
        /\ version < 351 => returned.value.pen_width = 0

(***************************************************************************)
(* C26 amended.  Decoding an EntityBase consumes 13 bytes when the version *)
(* is below 351 and 15 bytes when it is 351 or more: group (4), pen_style  *)
(* (1), pen_color (2), pen_width (2, read only from version 351 on and 0   *)
(* otherwise), layer (2), layer_group (2) and flag (2), in this order; the *)
(* decoding succeeds exactly when that many bytes are left.                *)
(***************************************************************************)
C26_BaseSizeFromFields ==
    BaseCalled =>
        LET size == IF version < 351 THEN 13 ELSE 15
            wide == IF version < 351 THEN 0 ELSE 2
        IN /\ returned.ok <=> CalledAt + size <= Len(data)
           /\ returned.ok =>
                 /\ BaseConsumed = size
                 /\ returned.value.group = LeAt(0, 4)
                 /\ returned.value.pen_style = LeAt(4, 1)
                 /\ returned.value.pen_color = LeAt(5, 2)
                 /\ returned.value.pen_width = IF version < 351 THEN 0 ELSE LeAt(7, 2)
                 /\ returned.value.layer = LeAt(7 + wide, 2)
                 /\ returned.value.layer_group = LeAt(9 + wide, 2)
                 /\ returned.value.flag = LeAt(11 + wide, 2)

\* a base of version 350 decoded from offset 1 of a buffer: 13 bytes, the
\* layer from the bytes 9 and 10 of the buffer (at offsets 8 and 9)
C26_Witness ==
    /\ BaseCalled
    /\ returned.ok
    /\ version = 350
    /\ CalledAt = 1
    /\ reader = 14
    /\ returned.value.pen_width = 0
    /\ returned.value.layer = 9 + 256 * 10
\* a base of version 351: 15 bytes, pen_width from offsets 7 and 8
C26_WitnessPenWidth ==
    /\ BaseCalled
    /\ returned.ok
    /\ version = 351
    /\ CalledAt = 0
    /\ reader = 15
    /\ returned.value.pen_width = 8 + 256 * 9
    /\ returned.value.layer = 10 + 256 * 11
\* a buffer of 13 bytes holds a base of version 350 and none of version 351
C26_WitnessTooShort ==
    BaseCalled /\ ~returned.ok /\ version = 351 /\ CalledAt = 0 /\ Len(data) = 14

(***************************************************************************)
(* The diagnostics of a conversion.                                        *)
(***************************************************************************)
BlockDiagnosticTags == {"BLOCK_DEPTH_LIMIT", "BLOCK_CYCLE", "UNRESOLVED_BLOCK"}
BlockDiagnostics == {Diagnostic(tag, n) : tag \in BlockDiagnosticTags, n \in RefNumbers}
\* the source entities of the document, at the top level and in the definitions
SourceEntities ==
    Range(doc.entities)
      \cup UNION {Range(doc.block_defs[i].entities) : i \in DOMAIN doc.block_defs}
TypeDiagnostics == {entity_type(e) : e \in SourceEntities}

(***************************************************************************)
(* C27.  Without explode_inserts unsupported_entities is empty for every   *)
(* document, and with explode_inserts each of its entries is one of        *)
(* BLOCK_DEPTH_LIMIT(n), BLOCK_CYCLE(n) and UNRESOLVED_BLOCK(n): no source *)
(* entity is dropped with the name of its type as the diagnostic.  This    *)
(* holds of the list while it is collected and of the document returned.   *)
(***************************************************************************)
C27_OnlyBlockDiagnostics ==
    /\ ~options.explode_inserts =>
          unsupported_entities = <<>> /\ dxf.unsupported_entities = <<>>
    /\ options.explode_inserts =>
          /\ Range(unsupported_entities) \subseteq BlockDiagnostics
          /\ Range(dxf.unsupported_entities) \subseteq BlockDiagnostics
    /\ Range(unsupported_entities) \cap TypeDiagnostics = {}
    /\ Range(dxf.unsupported_entities) \cap TypeDiagnostics = {}

\* a document of every kind of entity, with an insert that names no
\* definition and a temporary point, converted without explode_inserts
C27_Witness ==
    /\ pc = "done"
    /\ ~options.explode_inserts
    /\ doc.entities = <<TopRef(2), TempPointE>>
    /\ doc.block_defs[1].entities = AllLeaves
    /\ dxf.entities = <<DxfInsert("BLOCK_2", 10, 20, 2, 1, 90)>>
    /\ Len(dxf.blocks[1].entities) = 9
    /\ dxf.unsupported_entities = <<>>
\* the same document exploded: the insert is the only diagnostic
C27_WitnessExploded ==
    /\ pc = "done"
    /\ options.explode_inserts
    /\ doc.entities = <<TopRef(2), TempPointE>>
    /\ dxf.entities = <<>>
    /\ dxf.unsupported_entities = <<"UNRESOLVED_BLOCK(2)">>

(***************************************************************************)
(* The definition each lookup of a number refers to.                       *)
(***************************************************************************)
\* the index of the definition that .iter().find() of resolve_block_name
\* stops at, 0 if none
FoundByResolve(n, block_defs) ==
    LET hits == {i \in DOMAIN block_defs : block_defs[i].number = n}
    IN IF hits = {} THEN 0 ELSE CHOOSE i \in hits : \A j \in hits : i <= j
NumbersDistinct(block_defs) ==
    \A i, j \in DOMAIN block_defs : i # j => block_defs[i].number # block_defs[j].number
\* the three lookups of n refer to one definition
LookupsAgreeOn(n, block_defs) ==
    LET first == resolve_block_name(n, block_defs)
        map == block_def_name_map(block_defs)
        used == block_defs_by_number(block_defs, n)
        insert_name == block_name_map(block_defs, n)
    IN /\ first.is_some <=> n \in DOMAIN map
       /\ first.is_some <=> used # 0
       /\ first.is_some <=> insert_name.is_some
       /\ first.is_some =>
             /\ map[n] = first.value
             /\ used = FoundByResolve(n, block_defs)
             /\ block_defs[used].name = first.value
             /\ insert_name.value = block_def_name(n, first.value)
\* the definitions being expanded are the ones resolve_block_name finds for
\* the inserts that led to them
ExpandedAsResolved ==
    pc = "exploding" =>
        \A j \in 1..(Len(frames) - 1) :
            frames[j + 1].src = FoundByResolve(InsertChain[j].def_number, doc.block_defs)

(***************************************************************************)
(* C28.  The three block lookups agree: for every list of block            *)
(* definitions and every number n, resolve_block_name(n, defs),            *)
(* block_def_name_map(defs).get(n) and the definition the converter uses   *)
(* for n, for the name of an INSERT and for the expansion under            *)
(* explode_inserts, refer to the same BlockDef.                            *)
(***************************************************************************)
C28_LookupsAgree ==
    /\ \A n \in RefNumbers : LookupsAgreeOn(n, doc.block_defs)
    /\ ExpandedAsResolved

\* what holds: the lookups agree on every list whose numbers are distinct
C28_AgreeWhenDistinct ==
    NumbersDistinct(doc.block_defs) =>
        /\ \A n \in RefNumbers : LookupsAgreeOn(n, doc.block_defs)
        /\ ExpandedAsResolved
\* two definitions numbered 1, named "" and "B2": resolve_block_name gives
\* the first, the maps the second, and the second is the one expanded
C28_FailingList ==
    /\ pc = "exploding"
    /\ Len(frames) = 2
    /\ doc.block_defs[1].number = 1
    /\ doc.block_defs[2].number = 1
    /\ resolve_block_name(1, doc.block_defs) = Some("")
    /\ block_def_name_map(doc.block_defs)[1] = "B2"
    /\ block_name_map(doc.block_defs, 1) = Some("B2")
    /\ InsertChain[1].def_number = 1
    /\ frames[2].src = 2

(***************************************************************************)
(* The names of the layers of a converted document and the layer names its *)
(* entities carry.                                                         *)
(***************************************************************************)
LayersNamed == {dxf.layers[k].name : k \in DOMAIN dxf.layers}
EntityLayers ==
    {dxf.entities[k].layer : k \in DOMAIN dxf.entities}
      \cup UNION {{dxf.blocks[i].entities[k].layer : k \in DOMAIN dxf.blocks[i].entities} :
                     i \in DOMAIN dxf.blocks}
Converted == pc = "done"
\* the layer indices of the source entities, top level and definitions
SourceBases ==
    {doc.entities[k].base : k \in DOMAIN doc.entities}
      \cup UNION {{doc.block_defs[i].entities[k].base :
                       k \in DOMAIN doc.block_defs[i].entities} :
                     i \in DOMAIN doc.block_defs}
IndicesInRange == \A b \in SourceBases : b.layer_group < 16 /\ b.layer < 16

(***************************************************************************)
(* C29.  In every DxfDocument produced by conversion the layers list has   *)
(* 256 entries, and the layer name carried by each entity, at the top      *)
(* level and inside blocks, is the name of one of them.                    *)
(***************************************************************************)
C29_EntityLayersListed ==
    Converted => Len(dxf.layers) = 256 /\ EntityLayers \subseteq LayersNamed

\* what holds: an entity whose indices are below 16 carries the name of its
\* own layer of the list with the white space at its ends removed, or the
\* default name when nothing is left
C29_TrimmedNameListed ==
    (Converted /\ IndicesInRange) =>
        /\ Len(dxf.layers) = 256
        /\ \A b \in SourceBases :
              LET listed == dxf.layers[b.layer_group * 16 + b.layer + 1].name
                  carried == layer_name(doc, b.layer_group, b.layer)
              IN /\ carried \in EntityLayers
                 /\ carried = IF trim(listed) = <<>>
                              THEN default_layer_name(b.layer_group, b.layer)
                              ELSE trim(listed)
\* a line on layer (0, 0), which the header names "A1 ": the list has
\* "A1 " and the line carries "A1"
C29_FailingName ==
    /\ Converted
    /\ IndicesInRange
    /\ doc.entities = <<LineOn(0, 0)>>
    /\ dxf.layers[1].name = <<65, 49, 32>>
    /\ dxf.entities[1].layer = <<65, 49>>
    /\ <<65, 49>> \notin LayersNamed
\* a line with layer_group 16: it carries "10-0", a name of no layer
C29_FailingIndex ==
    /\ Converted
    /\ doc.header = HeaderOf(NamesDefault)
    /\ doc.block_defs # <<>>
    /\ doc.block_defs[1].entities = <<LineOn(16, 0)>>
    /\ dxf.blocks[1].entities[1].layer = <<49, 48, 45, 48>>
    /\ <<49, 48, 45, 48>> \notin LayersNamed

(***************************************************************************)
(* The LAYER table of the text: from 0/TABLE 2/LAYER to the next 0/ENDTAB. *)
(***************************************************************************)
LayerTableStart(recs) ==
    CHOOSE k \in 1..(Len(recs) - 1) :
        /\ recs[k] = Record(0, "TABLE")
        /\ recs[k + 1] = Record(2, "LAYER")
        /\ \A j \in 1..(k - 1) :
              ~(recs[j] = Record(0, "TABLE") /\ recs[j + 1] = Record(2, "LAYER"))
LayerTableEnd(recs) ==
    CHOOSE k \in DOMAIN recs :
        /\ k > LayerTableStart(recs)
        /\ recs[k] = Record(0, "ENDTAB")
        /\ \A j \in (LayerTableStart(recs) + 1)..(k - 1) : recs[j] # Record(0, "ENDTAB")
LayerRecords(recs) ==
    {k \in LayerTableStart(recs)..LayerTableEnd(recs) : recs[k] = Record(0, "LAYER")}
\* the count the table declares: the value of its first group 70
LayerCountDeclared(recs) ==
    LET counts == {j \in DOMAIN recs :
                      j > LayerTableStart(recs) /\ recs[j].code = code_field(70)}
    IN recs[CHOOSE j \in counts : \A i \in counts : j <= i].value
LayerCountAsWritten(recs) == LayerCountDeclared(recs) = ToString(Cardinality(LayerRecords(recs)))

(***************************************************************************)
(* C30.  The LAYER table written by document_to_string never holds two     *)
(* LAYER records of the same name, the fixed layer "0" counted, and the    *)
(* record count it declares is the number of LAYER records written.        *)
(***************************************************************************)
C30_LayerTable ==
    DocumentWritten =>
        LET recs == Records
            layers == LayerRecords(recs)
        IN /\ \A i, j \in layers :
                 i # j => BlockNameAt(recs, i) # BlockNameAt(recs, j)
           /\ LayerCountAsWritten(recs)

\* what holds: the count declared is the number of records written, and the
\* records are the fixed layer and one for each distinct name of the list
C30_CountAsWritten ==
    DocumentWritten =>
        LET recs == Records
        IN /\ LayerCountAsWritten(recs)
           /\ Cardinality(LayerRecords(recs)) =
                 1 + Cardinality({dxf.layers[k].name : k \in DOMAIN dxf.layers})
\* a document with the layers "L1", "0", "L1": three LAYER records, two of
\* them named 0
C30_FailingLayerZero ==
    /\ DocumentWritten
    /\ Len(dxf.layers) = 3
    /\ dxf.layers[2].name = Name_0
    /\ LET recs == Records
       IN /\ LayerCountDeclared(recs) = "3"
          /\ Cardinality({k \in LayerRecords(recs) : BlockNameAt(recs, k) = "0"}) = 2
\* the layers "A" and "A" with a carriage return: two records named A
C30_FailingCarriageReturn ==
    /\ DocumentWritten
    /\ Len(dxf.layers) = 2
    /\ dxf.layers[2].name = Name_A \o <<13>>
    /\ LET recs == Records
       IN Cardinality({k \in LayerRecords(recs) : BlockNameAt(recs, k) = "A"}) = 2

====
